---- MODULE Spec2Model ----
(***************************************************************************)
(* Model of the soundgraph-relate harvest core: the paginator of the Deep  *)
(* Harvest Engine (src/sgr/collectors/deep_harvest.py), the SQLite entity  *)
(* cache (src/sgr/cache/track_cache.py) and the seven-phase harvest.       *)
(***************************************************************************)
EXTENDS Integers, Sequences, FiniteSets, TLC

VARIABLES
    pgSrc,      \* paginator: the fetch function's behaviour (pages, then a tail)
    pgMax,      \* paginator: max_results of the call
    pg,         \* paginator: locals of _fetch_all_paginated and its position
    db,         \* cache: the connection's view (conn) and the committed file (disk)
    ncalls,     \* cache: number of cache calls made so far
    hLast,      \* history: per table, the arguments of the latest successful write per key
    op,         \* cache: the multi-row write call in progress, statement by statement
    hvCfg,      \* harvest: the config dict the engine was constructed with
    hvWorld,    \* harvest: what the remote source answers, and where it fails
    hv,         \* harvest: the engine (harvest_stats) and the position of deep_harvest
    pp,         \* post-ingestion: the processor (config, stats) and the passes run
    gr          \* graph: the PersonalGraph, its last answers and its snapshot file

pgVars == <<pgSrc, pgMax, pg>>

cacheVars == <<db, ncalls, hLast, op>>

hvVars == <<hvCfg, hvWorld, hv>>

vars == <<pgSrc, pgMax, pg, db, ncalls, hLast, op, hvCfg, hvWorld, hv, pp, gr>>

Min(a, b) == IF a < b THEN a ELSE b

Take(s, n) == SubSeq(s, 1, Min(n, Len(s)))

(***************************************************************************)
(* _fetch_all_paginated                                                    *)
(***************************************************************************)

\* page_size = 50, deep_harvest.py line 506
PageSize == 50

\* number of pages a source describes one by one before its tail repeats
MaxPages == 3

\* a page outcome: a number of records, or Raise when the fetch function raises
Raise == -1

PageOutcomes == {Raise, 0, 30, PageSize}

Caps == {0, 1, 50, 100, 120, 130, 150, 1000}

Sources ==
    UNION {[pages : [1..n -> PageOutcomes], tail : {0, PageSize}] : n \in 0..MaxPages}

\* what the fetch function does on its k-th page (offset (k-1) * 50)
OutcomeAt(src, offset) ==
    LET k == (offset \div PageSize) + 1
    IN  IF k <= Len(src.pages) THEN src.pages[k] ELSE src.tail

\* the records of a page: the source's records offset+1 .. offset+n
RecordsAt(offset, n) == [i \in 1..n |-> offset + i]

\* fetch_func(offset): a page of records, or an exception
FetchPage(src, offset) ==
    LET n == OutcomeAt(src, offset)
    IN  IF n = Raise THEN [ok |-> FALSE, batch |-> <<>>]
        ELSE [ok |-> TRUE, batch |-> RecordsAt(offset, n)]

\* the locals before the while loop
PgStart ==
    [all_results |-> <<>>, offset |-> 0, api_requests |-> 0,
     log |-> <<>>, pc |-> "loop", ret |-> <<>>]

\* a loop that does not stop at a short page
PageStep_NoShortPageBreak(r, max_results, p) ==
    IF ~(Len(p.all_results) < max_results)
    THEN [p EXCEPT !.pc = "return"]
    ELSE IF ~r.ok
    THEN [p EXCEPT !.log = Append(@, <<"raise", p.offset>>), !.pc = "return"]
    ELSE LET q == [p EXCEPT !.api_requests = @ + 1,
                            !.log = Append(@, <<"fetch", p.offset>>)]
         IN  IF Len(r.batch) = 0
             THEN [q EXCEPT !.pc = "return"]
             ELSE [q EXCEPT !.all_results = @ \o r.batch,
                            !.offset = @ + PageSize,
                            !.log = Append(@, <<"sleep", p.offset>>)]

\* a loop that forgets what it has accumulated when the fetch raises
PageStep_RaiseDropsResults(r, max_results, p) ==
    IF ~(Len(p.all_results) < max_results)
    THEN [p EXCEPT !.pc = "return"]
    ELSE IF ~r.ok
    THEN [p EXCEPT !.all_results = <<>>,
                   !.log = Append(@, <<"raise", p.offset>>), !.pc = "return"]
    ELSE LET q == [p EXCEPT !.api_requests = @ + 1,
                            !.log = Append(@, <<"fetch", p.offset>>)]
         IN  IF Len(r.batch) = 0
             THEN [q EXCEPT !.pc = "return"]
             ELSE IF Len(r.batch) < PageSize
             THEN [q EXCEPT !.all_results = @ \o r.batch, !.pc = "return"]
             ELSE [q EXCEPT !.all_results = @ \o r.batch,
                            !.offset = @ + PageSize,
                            !.log = Append(@, <<"sleep", p.offset>>)]

\* a variant that counts the request before the fetch function is called
PageStep_CountsAttempts(r, max_results, p) ==
    IF ~(Len(p.all_results) < max_results)
    THEN [p EXCEPT !.pc = "return"]
    ELSE IF ~r.ok
    THEN [p EXCEPT !.api_requests = @ + 1,
                   !.log = Append(@, <<"raise", p.offset>>), !.pc = "return"]
    ELSE LET q == [p EXCEPT !.api_requests = @ + 1,
                            !.log = Append(@, <<"fetch", p.offset>>)]
         IN  IF Len(r.batch) = 0
             THEN [q EXCEPT !.pc = "return"]
             ELSE IF Len(r.batch) < PageSize
             THEN [q EXCEPT !.all_results = @ \o r.batch, !.pc = "return"]
             ELSE [q EXCEPT !.all_results = @ \o r.batch,
                            !.offset = @ + PageSize,
                            !.log = Append(@, <<"sleep", p.offset>>)]

\* one pass through the while loop: the loop test, the fetch, the three exits
PageStep(r, max_results, p) ==
    IF ~(Len(p.all_results) < max_results)
    THEN [p EXCEPT !.pc = "return"]
    ELSE IF ~r.ok
    THEN [p EXCEPT !.log = Append(@, <<"raise", p.offset>>), !.pc = "return"]
    ELSE LET q == [p EXCEPT !.api_requests = @ + 1,
                            !.log = Append(@, <<"fetch", p.offset>>)]
         IN  IF Len(r.batch) = 0
             THEN [q EXCEPT !.pc = "return"]
             ELSE IF Len(r.batch) < PageSize
             THEN [q EXCEPT !.all_results = @ \o r.batch, !.pc = "return"]
             ELSE [q EXCEPT !.all_results = @ \o r.batch,
                            !.offset = @ + PageSize,
                            !.log = Append(@, <<"sleep", p.offset>>)]

\* return all_results, without the slice
PageReturn_NoTruncate(max_results, p) ==
    [p EXCEPT !.ret = p.all_results, !.pc = "done"]

\* return all_results[:max_results]
PageReturn(max_results, p) ==
    [p EXCEPT !.ret = Take(p.all_results, max_results), !.pc = "done"]

(***************************************************************************)
(* TrackCache: payloads, rows and the SQLite store                         *)
(***************************************************************************)

\* a key that is absent from a payload dict, and a key whose value is None
Missing == "<missing>"
Null == "<null>"

\* a payload without a "user" (absent, None or {}); ids are positive, and
\* id 0 stands for an id that is absent, None or 0 (all falsy in the code)
NoUser == [present |-> FALSE, id |-> 0, username |-> Missing, followers_count |-> 0]

UserPayload(id, username) ==
    [present |-> TRUE, id |-> id, username |-> username, followers_count |-> 0]

TrackPayload(id, title, user, plays, likes) ==
    [id |-> id, title |-> title, user |-> user,
     playback_count |-> plays, likes_count |-> likes, favoritings_count |-> 0,
     label_name |-> "", description |-> ""]

PlaylistPayload(id, title, user, tracks) ==
    [id |-> id, title |-> title, user |-> user,
     track_count |-> Len(tracks), tracks |-> tracks]

\* the tables created by _create_schema, each a set of rows
EmptyTables ==
    [tracks |-> {}, users |-> {}, playlists |-> {}, playlist_tracks |-> {},
     related_tracks |-> {}, user_engagements |-> {}, user_similarity |-> {},
     artist_relationships |-> {}, user_follows |-> {}]

EmptyDb == [conn |-> EmptyTables, disk |-> EmptyTables]

\* dict.get(key, default): the default only when the key is absent
GetOr(value, default) == IF value = Missing THEN default ELSE value

\* INSERT OR REPLACE: rows with the new row's primary key are deleted first
InsertOrReplace(table, row, Key(_)) ==
    {r \in table : Key(r) # Key(row)} \cup {row}

\* self.conn.commit() and self.conn.rollback()
Commit(d) == [d EXCEPT !.disk = d.conn]
Rollback(d) == [d EXCEPT !.conn = d.disk]

TrackKey(r) == r.track_id

\* the column values cache_track and cache_tracks_batch bind
TrackRow(td) ==
    [track_id |-> td.id,
     title |-> GetOr(td.title, "Untitled"),
     artist_id |-> IF td.user.present THEN td.user.id ELSE 0,
     artist_name |-> IF td.user.present THEN GetOr(td.user.username, "Unknown")
                     ELSE "Unknown",
     playback_count |-> td.playback_count,
     like_count |-> IF td.likes_count # 0 THEN td.likes_count
                    ELSE td.favoritings_count,
     raw_json |-> td]

\* INSERT OR IGNORE: a row already stored for the id is kept
ExecTrack_KeepFirst(tables, td) ==
    LET row == TrackRow(td)
    IN  IF row.title = Null
        THEN [tables |-> tables, err |-> "IntegrityError"]
        ELSE IF \E r \in tables.tracks : TrackKey(r) = TrackKey(row)
        THEN [tables |-> tables, err |-> "ok"]
        ELSE [tables |-> [tables EXCEPT !.tracks = @ \cup {row}], err |-> "ok"]

\* one INSERT OR REPLACE INTO tracks; title is NOT NULL
ExecTrack(tables, td) ==
    LET row == TrackRow(td)
    IN  IF row.title = Null
        THEN [tables |-> tables, err |-> "IntegrityError"]
        ELSE [tables |-> [tables EXCEPT !.tracks = InsertOrReplace(@, row, TrackKey)],
              err |-> "ok"]

\* the end of a `with self._transaction()` block: commit, or rollback and raise
EndTransaction(d, r) ==
    IF r.err = "ok"
    THEN [db |-> Commit([d EXCEPT !.conn = r.tables]), err |-> "ok"]
    ELSE [db |-> Rollback(d), err |-> r.err]

cache_track(d, td) ==
    IF td.id = 0
    THEN [db |-> d, err |-> "ValueError"]
    ELSE EndTransaction(d, ExecTrack(d.conn, td))

\* the body of the loop of cache_tracks_batch for one payload
BatchTrackItem(s, td) ==
    IF td.id = 0 THEN s ELSE ExecTrack(s.tables, td)

RECURSIVE ForEach(_, _, _, _)
\* a for loop over items[i..] from state s; an exception raised by the body
\* (s.err # "ok") ends the loop and is passed on
ForEach(Item(_, _), s, items, i) ==
    IF i > Len(items) THEN s
    ELSE LET r == Item(s, items[i])
         IN  IF r.err # "ok" THEN r ELSE ForEach(Item, r, items, i + 1)

\* the cursor of a transaction that starts on the connection's view
Cursor(d) == [tables |-> d.conn, err |-> "ok"]

cache_tracks_batch(d, tracks_data) ==
    EndTransaction(d, ForEach(BatchTrackItem, Cursor(d), tracks_data, 1))

UserKey(r) == r.user_id

PlaylistKey(r) == r.playlist_id

EngagementKey(r) == <<r.user_id, r.track_id, r.engagement_type>>

\* one INSERT OR REPLACE INTO users; username is NOT NULL
ExecUser(tables, ud) ==
    LET row == [user_id |-> ud.id,
                username |-> GetOr(ud.username, "Unknown"),
                followers_count |-> ud.followers_count,
                raw_json |-> ud]
    IN  IF row.username = Null
        THEN [tables |-> tables, err |-> "IntegrityError"]
        ELSE [tables |-> [tables EXCEPT !.users = InsertOrReplace(@, row, UserKey)],
              err |-> "ok"]

\* a cache_user that binds whatever id the payload carries
cache_user_Unchecked(d, user_data) == EndTransaction(d, ExecUser(d.conn, user_data))

cache_user(d, user_data) ==
    IF user_data.id = 0
    THEN [db |-> d, err |-> "ValueError"]
    ELSE EndTransaction(d, ExecUser(d.conn, user_data))

\* one INSERT OR REPLACE INTO playlists; title is NOT NULL
ExecPlaylist(tables, pd) ==
    LET row == [playlist_id |-> pd.id,
                title |-> GetOr(pd.title, "Untitled"),
                creator_user_id |-> IF pd.user.present THEN pd.user.id ELSE 0,
                track_count |-> pd.track_count,
                raw_json |-> pd]
    IN  IF row.title = Null
        THEN [tables |-> tables, err |-> "IntegrityError"]
        ELSE [tables |-> [tables EXCEPT !.playlists = InsertOrReplace(@, row, PlaylistKey)],
              err |-> "ok"]

cache_playlist(d, playlist_data) ==
    IF playlist_data.id = 0
    THEN [db |-> d, err |-> "ValueError"]
    ELSE EndTransaction(d, ExecPlaylist(d.conn, playlist_data))

\* a write that adds the count to the one already stored for the key
add_user_engagement_Accumulate(d, user_id, track_id, engagement_type, engagement_count) ==
    LET old == {r \in d.conn.user_engagements :
                    r.user_id = user_id /\ r.track_id = track_id
                        /\ r.engagement_type = engagement_type}
        stored == IF old = {} THEN 0 ELSE (CHOOSE r \in old : TRUE).engagement_count
    IN  [db |-> Commit([d EXCEPT !.conn.user_engagements =
                        (@ \ old) \cup {[user_id |-> user_id, track_id |-> track_id,
                                         engagement_type |-> engagement_type,
                                         engagement_count |-> stored + engagement_count]}]),
         err |-> "ok"]

\* execute, then commit
add_user_engagement(d, user_id, track_id, engagement_type, engagement_count) ==
    [db |-> Commit([d EXCEPT !.conn.user_engagements =
                        InsertOrReplace(@, [user_id |-> user_id, track_id |-> track_id,
                                            engagement_type |-> engagement_type,
                                            engagement_count |-> engagement_count],
                                        EngagementKey)]),
     err |-> "ok"]

\* SELECT * FROM tracks WHERE track_id = ?, with raw_json parsed into raw_data
get_track(d, track_id) ==
    LET rows == {r \in d.conn.tracks : r.track_id = track_id}
    IN  IF rows = {}
        THEN [found |-> FALSE, artist_id |-> 0,
              row |-> TrackRow(TrackPayload(0, Missing, NoUser, 0, 0)),
              raw_data |-> TrackPayload(0, Missing, NoUser, 0, 0)]
        ELSE [found |-> TRUE, artist_id |-> (CHOOSE r \in rows : TRUE).artist_id,
              row |-> CHOOSE r \in rows : TRUE,
              raw_data |-> (CHOOSE r \in rows : TRUE).raw_json]

PlaylistTrackKey(r) == <<r.playlist_id, r.track_id>>

RelatedKey(r) == <<r.src_track_id, r.dst_track_id, r.relation_type>>

\* enumerate(tracks) of cache_playlist_tracks, with the playlist id
LinkArgs(playlist_id, tracks) ==
    [i \in 1..Len(tracks) |->
        [playlist_id |-> playlist_id, position |-> i - 1, track |-> tracks[i]]]

\* the body of the linking loop of cache_playlist_tracks for one track
LinkItem(s, a) ==
    IF a.track.id = 0 THEN s
    ELSE [s EXCEPT !.tables.playlist_tracks =
                InsertOrReplace(@, [playlist_id |-> a.playlist_id,
                                    track_id |-> a.track.id,
                                    position |-> a.position],
                                PlaylistTrackKey)]

\* the nested cache_tracks_batch commits on its own; then the links are
\* written and the outer block commits
cache_playlist_tracks(d, playlist_id, tracks) ==
    LET inner == cache_tracks_batch(d, tracks)
    IN  IF inner.err # "ok"
        THEN [db |-> Rollback(inner.db), err |-> inner.err]
        ELSE EndTransaction(inner.db,
                ForEach(LinkItem, Cursor(inner.db), LinkArgs(playlist_id, tracks), 1))

\* the body of the loop of add_related_tracks_batch for one tuple
RelationItem(s, rel) ==
    [s EXCEPT !.tables.related_tracks =
        InsertOrReplace(@, [src_track_id |-> rel[1], dst_track_id |-> rel[2],
                            relation_type |-> rel[3], weight |-> rel[4]],
                        RelatedKey)]

add_related_tracks_batch(d, relationships) ==
    EndTransaction(d, ForEach(RelationItem, Cursor(d), relationships, 1))

\* one INSERT OR REPLACE INTO related_tracks in a transaction of its own
add_related_track(d, src_track_id, dst_track_id, relation_type, weight) ==
    EndTransaction(d, RelationItem(Cursor(d),
                        <<src_track_id, dst_track_id, relation_type, weight>>))

Artist10 == UserPayload(10, "ann")
Artist11 == UserPayload(11, Missing)

(***************************************************************************)
(* Layer 3 and Layer 4 pair tables                                         *)
(***************************************************************************)

SimKey(r) == <<r.user_id_a, r.user_id_b, r.similarity_type>>

ArtistRelKey(r) == <<r.artist_id_a, r.artist_id_b, r.relationship_type>>

\* the arguments stored as given
CanonicalSim_NoSwap(a, b, ta, tb) == [a |-> a, b |-> b, ta |-> ta, tb |-> tb]

\* "Ensure canonical ordering" of add_user_similarity: the ids and the two
\* totals are swapped together
CanonicalSim(a, b, ta, tb) ==
    IF a > b THEN [a |-> b, b |-> a, ta |-> tb, tb |-> ta]
    ELSE [a |-> a, b |-> b, ta |-> ta, tb |-> tb]

\* "Ensure canonical ordering" of add_artist_relationship
CanonicalArtists(a, b) == IF a > b THEN <<b, a>> ELSE <<a, b>>

\* execute, then commit; the table's CHECK (user_id_a < user_id_b) makes the
\* INSERT OR REPLACE of a pair of equal ids fail
add_user_similarity(d, user_id_a, user_id_b, similarity_type, similarity_score, common_tracks, total_tracks_a, total_tracks_b) ==
    LET c == CanonicalSim(user_id_a, user_id_b, total_tracks_a, total_tracks_b)
        row == [user_id_a |-> c.a, user_id_b |-> c.b,
                similarity_type |-> similarity_type,
                similarity_score |-> similarity_score,
                common_tracks |-> common_tracks,
                total_tracks_a |-> c.ta, total_tracks_b |-> c.tb]
    IN  IF ~(row.user_id_a < row.user_id_b)
        THEN [db |-> d, err |-> "IntegrityError"]
        ELSE [db |-> Commit([d EXCEPT !.conn.user_similarity =
                                        InsertOrReplace(@, row, SimKey)]),
              err |-> "ok"]

add_artist_relationship(d, artist_id_a, artist_id_b, relationship_type, strength, evidence_count) ==
    LET c == CanonicalArtists(artist_id_a, artist_id_b)
        row == [artist_id_a |-> c[1], artist_id_b |-> c[2],
                relationship_type |-> relationship_type,
                strength |-> strength, evidence_count |-> evidence_count]
    IN  IF ~(row.artist_id_a < row.artist_id_b)
        THEN [db |-> d, err |-> "IntegrityError"]
        ELSE [db |-> Commit([d EXCEPT !.conn.artist_relationships =
                                        InsertOrReplace(@, row, ArtistRelKey)]),
              err |-> "ok"]

FollowKey(r) == <<r.follower_id, r.followee_id>>

\* a write that stores the pair in canonical order, as the similarity does
add_user_follow_Canonical(d, follower_id, followee_id, followed_at) ==
    LET c == CanonicalArtists(follower_id, followee_id)
    IN  [db |-> Commit([d EXCEPT !.conn.user_follows =
                            InsertOrReplace(@, [follower_id |-> c[1],
                                                followee_id |-> c[2],
                                                followed_at |-> followed_at],
                                            FollowKey)]),
         err |-> "ok"]

\* execute, then commit; the direction of the pair is kept
add_user_follow(d, follower_id, followee_id, followed_at) ==
    [db |-> Commit([d EXCEPT !.conn.user_follows =
                        InsertOrReplace(@, [follower_id |-> follower_id,
                                            followee_id |-> followee_id,
                                            followed_at |-> followed_at],
                                        FollowKey)]),
     err |-> "ok"]

(***************************************************************************)
(* PostIngestionProcessor: the three batch passes over the cache           *)
(***************************************************************************)

RECURSIVE GCD(_, _)
GCD(a, b) == IF b = 0 THEN a ELSE GCD(b, a % b)

\* the float n / d of two small integers, kept exact and in lowest terms
Ratio(n, d) == [num |-> n \div GCD(n, d), den |-> d \div GCD(n, d)]

\* r >= s on two such floats
AtLeast(r, s) == r.num * s.den >= s.num * r.den

\* min(1.0, r)
MinOne(r) == IF r.num >= r.den THEN Ratio(1, 1) ELSE r

RECURSIVE SortedIds(_)
\* the ids of a set in ascending order
SortedIds(S) ==
    IF S = {} THEN <<>>
    ELSE LET m == CHOOSE x \in S : \A y \in S : x <= y
         IN  <<m>> \o SortedIds(S \ {m})

\* the reverse of a list
Reversed(items) == [i \in 1..Len(items) |-> items[Len(items) + 1 - i]]

RECURSIVE PairsFrom(_, _, _)
PairsFrom(items, i, j) ==
    IF i > Len(items) THEN <<>>
    ELSE IF j > Len(items) THEN PairsFrom(items, i + 1, i + 2)
    ELSE <<(<<items[i], items[j]>>)>> \o PairsFrom(items, i, j + 1)

\* `for i, a in enumerate(items): for b in items[i+1:]`, in loop order
PairsInOrder(items) == PairsFrom(items, 1, 2)

\* user_engagements JOIN tracks: the cached tracks the user has a 'like' row
\* for; a like of a track that is not in tracks yields no row.  ORDER BY
\* engaged_at DESC LIMIT ? keeps every row while there are at most `limit`
get_user_liked_tracks(d, user_id, limit) ==
    LET rows == {t \in d.conn.tracks :
                    \E e \in d.conn.user_engagements :
                        /\ e.user_id = user_id
                        /\ e.engagement_type = "like"
                        /\ e.track_id = t.track_id}
    IN  IF Cardinality(rows) <= limit THEN rows
        ELSE CHOOSE S \in SUBSET rows : Cardinality(S) = limit

\* the thresholds read in __init__, with their defaults
DefaultThresholds ==
    [min_common_tracks |-> 3, min_similarity_score |-> Ratio(1, 10),
     min_co_occurrence |-> 2, min_artist_strength |-> Ratio(3, 10)]

\* the locals of a pass: the cache, the counter of writes, the pair counts
\* (a dict of dicts, `order` its keys as first inserted)
PassStart(d, config) ==
    [db |-> d, err |-> "ok", cfg |-> config, written |-> 0,
     ids |-> <<>>, count |-> <<>>, order |-> <<>>]

\* the body of the inner loop of _compute_user_similarities for one pair
\* (user_a, user_b); the outer loop's `continue` skips every pair of user_a
SimilarityItem(s, pair) ==
    LET track_ids_a == {t.track_id : t \in get_user_liked_tracks(s.db, pair[1], 10000)}
        track_ids_b == {t.track_id : t \in get_user_liked_tracks(s.db, pair[2], 10000)}
        common == track_ids_a \cap track_ids_b
        union == track_ids_a \cup track_ids_b
    IN  IF Cardinality(track_ids_a) < s.cfg.min_common_tracks THEN s
        ELSE IF Cardinality(track_ids_b) < s.cfg.min_common_tracks THEN s
        ELSE IF ~(Cardinality(common) >= s.cfg.min_common_tracks
                    /\ Cardinality(union) > 0) THEN s
        ELSE LET jaccard == Ratio(Cardinality(common), Cardinality(union))
             IN  IF ~AtLeast(jaccard, s.cfg.min_similarity_score) THEN s
                 ELSE LET r == add_user_similarity(s.db, pair[1], pair[2],
                                    "jaccard_likes", jaccard, Cardinality(common),
                                    Cardinality(track_ids_a), Cardinality(track_ids_b))
                      IN  [s EXCEPT !.db = r.db, !.err = r.err,
                                    !.written = @ + 1]

\* SELECT DISTINCT user_id FROM user_engagements WHERE engagement_type = 'like'
LikingUsers(d) ==
    {e.user_id : e \in {x \in d.conn.user_engagements : x.engagement_type = "like"}}

\* the body of the outer loop for user_ids[i]: `for user_b in user_ids[i+1:]`
SimilarityRow(s, i) ==
    ForEach(SimilarityItem, s,
            [k \in 1..(Len(s.ids) - i) |-> <<s.ids[i], s.ids[i + k]>>], 1)

\* user_ids is the list of those users in the order the query returned them
compute_user_similarities(d, config, user_ids) ==
    ForEach(SimilarityRow, [PassStart(d, config) EXCEPT !.ids = user_ids],
            [i \in 1..Len(user_ids) |-> i], 1)

\* cooccurrence[a][b] += 1 on a defaultdict
Bump(s, a, b) ==
    IF <<a, b>> \in DOMAIN s.count
    THEN [s EXCEPT !.count[<<a, b>>] = @ + 1]
    ELSE [s EXCEPT !.count = @ @@ (<<a, b>> :> 1), !.order = Append(@, <<a, b>>)]

\* a count kept in one direction only
CountItem_OneWay(s, pair) == Bump(s, pair[1], pair[2])

\* the body of the pair-counting loops: both directions are counted
CountItem(s, pair) == Bump(Bump(s, pair[1], pair[2]), pair[2], pair[1])

RECURSIVE OrderByPosition(_)
\* ORDER BY position (ties in the order of the track ids)
OrderByPosition(rows) ==
    IF rows = {} THEN <<>>
    ELSE LET first == CHOOSE r \in rows : \A x \in rows :
                        \/ r.position < x.position
                        \/ (r.position = x.position /\ r.track_id <= x.track_id)
         IN  <<first.track_id>> \o OrderByPosition(rows \ {first})

\* SELECT track_id FROM playlist_tracks WHERE playlist_id = ? ORDER BY position
PlaylistTrackIds(d, playlist_id) ==
    OrderByPosition({r \in d.conn.playlist_tracks : r.playlist_id = playlist_id})

\* the body of the loop over the playlists
PlaylistItem(s, playlist_id) ==
    ForEach(CountItem, s, PairsInOrder(PlaylistTrackIds(s.db, playlist_id)), 1)

\* the body of the writing loop of _compute_track_cooccurrence for one pair
RelatedItem(s, key) ==
    IF s.count[key] >= s.cfg.min_co_occurrence
    THEN LET weight == MinOne(Ratio(s.count[key], 10))
             r == add_related_track(s.db, key[1], key[2], "co_playlist", weight)
         IN  [s EXCEPT !.db = r.db, !.err = r.err, !.written = @ + 1]
    ELSE s

\* SELECT playlist_id FROM playlists; every pair is written to a row of its
\* own, so the iteration order of the dict cannot show in the table
compute_track_cooccurrence(d, config) ==
    LET playlist_ids == SortedIds({p.playlist_id : p \in d.conn.playlists})
        counted == ForEach(PlaylistItem, PassStart(d, config), playlist_ids, 1)
    IN  ForEach(RelatedItem, counted, counted.order, 1)

\* user_artists[user_id]: the artists of the liked tracks that are cached
\* and carry an artist_id
UserArtists(d, user_id) ==
    {get_track(d, e.track_id).artist_id :
        e \in {x \in d.conn.user_engagements :
                /\ x.user_id = user_id /\ x.engagement_type = "like"
                /\ get_track(d, x.track_id).found
                /\ get_track(d, x.track_id).artist_id # 0}}

\* the body of the loop over user_artists
LibraryItem(s, user_id) ==
    ForEach(CountItem, s, PairsInOrder(SortedIds(UserArtists(s.db, user_id))), 1)

\* a strength on the scale of the co-occurrence weight
ArtistStrength_Tenth(count) == MinOne(Ratio(count, 10))

\* min(1.0, count / 20.0)
ArtistStrength(count) == MinOne(Ratio(count, 20))

\* a write that adds the evidence to the evidence already stored
ArtistItem_AddEvidence(s, key) ==
    LET c == CanonicalArtists(key[1], key[2])
        old == {x \in s.db.conn.artist_relationships :
                    ArtistRelKey(x) = <<c[1], c[2], "co_library">>}
        stored == IF old = {} THEN 0 ELSE (CHOOSE x \in old : TRUE).evidence_count
    IN  IF s.count[key] >= 2
            /\ AtLeast(ArtistStrength(s.count[key]), s.cfg.min_artist_strength)
        THEN LET r == add_artist_relationship(s.db, key[1], key[2], "co_library",
                            ArtistStrength(s.count[key]), stored + s.count[key])
             IN  [s EXCEPT !.db = r.db, !.err = r.err, !.written = @ + 1]
        ELSE s

\* the body of the writing loop of _compute_artist_relationships for one pair
ArtistItem(s, key) ==
    IF s.count[key] >= 2
    THEN LET strength == ArtistStrength(s.count[key])
         IN  IF AtLeast(strength, s.cfg.min_artist_strength)
             THEN LET r == add_artist_relationship(s.db, key[1], key[2],
                                "co_library", strength, s.count[key])
                  IN  [s EXCEPT !.db = r.db, !.err = r.err, !.written = @ + 1]
             ELSE s
    ELSE s

\* the users that get a key in user_artists; the pairs of a library are
\* counted in both directions, so the order of list(artists) cannot show
compute_artist_relationships(d, config) ==
    LET users == SortedIds({u \in LikingUsers(d) : UserArtists(d, u) # {}})
        counted == ForEach(LibraryItem, PassStart(d, config), users, 1)
    IN  ForEach(ArtistItem, counted, counted.order, 1)

\* the three passes in the order of process_all; an exception of a pass
\* ends the call
process_all(d, config, user_ids) ==
    LET p1 == compute_user_similarities(d, config, user_ids)
        p2 == compute_track_cooccurrence(p1.db, config)
        p3 == compute_artist_relationships(p2.db, config)
    IN  IF p1.err # "ok" THEN [db |-> p1.db, err |-> p1.err, stats |-> <<p1.written, 0, 0>>]
        ELSE IF p2.err # "ok"
        THEN [db |-> p2.db, err |-> p2.err, stats |-> <<p1.written, p2.written, 0>>]
        ELSE [db |-> p3.db, err |-> p3.err,
              stats |-> <<p1.written, p2.written, p3.written>>]


\* no processor constructed yet
PpIdle ==
    [cfg |-> DefaultThresholds, later |-> {}, last |-> "none", ingested |-> 0,
     done |-> {}, again |-> FALSE, base |-> EmptyTables, before |-> EmptyTables,
     written |-> 0, err |-> "ok", expanded |-> 0]


(***************************************************************************)
(* PersonalGraph: a networkx MultiDiGraph built from the cache             *)
(***************************************************************************)

\* node names: a track is named by its id, a user f"user_{id}", an artist
\* f"artist_{id}"
TrackNode(id) == [kind |-> "track", id |-> id]
UserNode(id) == [kind |-> "user", id |-> id]
ArtistNode(id) == [kind |-> "artist", id |-> id]

\* an empty attribute dict
NoAttrs == [k \in {} |-> 0]

\* nx.MultiDiGraph(): nodes maps a node to its attribute dict, an edge is
\* (u, v, key) with its attribute dict
EmptyGraph == [nodes |-> NoAttrs, edges |-> {}]

\* G.add_node(n, **attrs): the attributes of a node that exists are updated
AddNode(g, n, attrs) ==
    [g EXCEPT !.nodes = (n :> IF n \in DOMAIN g.nodes THEN attrs @@ g.nodes[n]
                              ELSE attrs) @@ @]

\* G.add_edge(u, v, **attrs): the ends are created when new, the key is the
\* number of edges already going from u to v
AddEdge(g, u, v, attrs) ==
    LET ends == (g.nodes @@ (u :> NoAttrs)) @@ (v :> NoAttrs)
        key == Cardinality({e \in g.edges : e.u = u /\ e.v = v})
    IN  [nodes |-> ends,
         edges |-> g.edges \cup {[u |-> u, v |-> v, key |-> key, attrs |-> attrs]}]

\* G.neighbors(n): the successors of n
Neighbors(g, n) == {e.v : e \in {x \in g.edges : x.u = n}}

\* G[u][v].get(name, default): G[u][v] maps the keys of the edges from u to
\* v to their attribute dicts, so the lookup is among the edge keys
AdjacencyGet(g, u, v, name, default) ==
    LET view == {e \in g.edges : e.u = u /\ e.v = v}
    IN  IF name \in {ToString(e.key) : e \in view}
        THEN (CHOOSE e \in view : ToString(e.key) = name).attrs
        ELSE default

RECURSIVE SeqOfSet(_)
\* the rows of a query without ORDER BY, in the order the store returns them
SeqOfSet(S) ==
    IF S = {} THEN <<>>
    ELSE LET first == CHOOSE x \in S : TRUE IN <<first>> \o SeqOfSet(S \ {first})

RECURSIVE ByWeightDesc(_)
\* ORDER BY weight DESC
ByWeightDesc(rows) ==
    IF rows = {} THEN <<>>
    ELSE LET first == CHOOSE r \in rows : \A x \in rows : AtLeast(r.weight, x.weight)
         IN  <<first>> \o ByWeightDesc(rows \ {first})

\* related_tracks JOIN tracks ON dst_track_id, ORDER BY weight DESC LIMIT ?
get_related_tracks(d, track_id, relation_type, limit) ==
    Take(ByWeightDesc(
            {[track_id |-> r.dst_track_id, relation_type |-> r.relation_type,
              weight |-> r.weight] :
                r \in {x \in d.conn.related_tracks :
                        /\ x.src_track_id = track_id
                        /\ relation_type \in {Null, x.relation_type}
                        /\ \E t \in d.conn.tracks : t.track_id = x.dst_track_id}}),
         limit)

\* user_engagements JOIN users, LIMIT ?
get_track_engagers(d, track_id, engagement_type, limit) ==
    Take(SeqOfSet(
            {[user_id |-> e[1].user_id, username |-> e[2].username,
              followers_count |-> e[2].followers_count,
              engagement_type |-> e[1].engagement_type] :
                e \in {x \in d.conn.user_engagements \X d.conn.users :
                        /\ x[1].track_id = track_id
                        /\ engagement_type \in {Null, x[1].engagement_type}
                        /\ x[1].user_id = x[2].user_id}}),
         limit)

\* a query that looks for the user in the first position of the pair only
get_similar_users_FirstPosition(d, user_id, similarity_type, min_score, limit) ==
    Take(ByWeightDesc(
            {[similar_user_id |-> r.user_id_b,
              similarity_type |-> r.similarity_type, weight |-> r.similarity_score,
              common_tracks |-> r.common_tracks] :
                r \in {x \in d.conn.user_similarity :
                        /\ user_id = x.user_id_a
                        /\ AtLeast(x.similarity_score, min_score)
                        /\ similarity_type \in {Null, x.similarity_type}
                        /\ \E w \in d.conn.users : w.user_id = x.user_id_b}}),
         limit)

\* user_similarity JOIN users on the other user of the pair, with
\* similarity_score >= min_score and the type when one is given, ORDER BY
\* similarity_score DESC LIMIT ?; the score is returned as weight here
get_similar_users(d, user_id, similarity_type, min_score, limit) ==
    Take(ByWeightDesc(
            {[similar_user_id |-> IF r.user_id_a = user_id THEN r.user_id_b
                                  ELSE r.user_id_a,
              similarity_type |-> r.similarity_type, weight |-> r.similarity_score,
              common_tracks |-> r.common_tracks] :
                r \in {x \in d.conn.user_similarity :
                        /\ user_id \in {x.user_id_a, x.user_id_b}
                        /\ AtLeast(x.similarity_score, min_score)
                        /\ similarity_type \in {Null, x.similarity_type}
                        /\ \E w \in d.conn.users :
                                w.user_id = IF x.user_id_a = user_id THEN x.user_id_b
                                            ELSE x.user_id_a}}),
         limit)

\* artist_relationships with strength >= min_strength and the type when one
\* is given, ORDER BY strength DESC LIMIT ?; the strength is returned as
\* weight here
get_related_artists(d, artist_id, relationship_type, min_strength, limit) ==
    Take(ByWeightDesc(
            {[related_artist_id |-> IF r.artist_id_a = artist_id THEN r.artist_id_b
                                    ELSE r.artist_id_a,
              relationship_type |-> r.relationship_type, weight |-> r.strength,
              evidence_count |-> r.evidence_count] :
                r \in {x \in d.conn.artist_relationships :
                        /\ artist_id \in {x.artist_id_a, x.artist_id_b}
                        /\ AtLeast(x.strength, min_strength)
                        /\ relationship_type \in {Null, x.relationship_type}}}),
         limit)

\* PersonalGraph(cache, enable_multi_layer)
NewGraph(multi) ==
    [graph |-> EmptyGraph, track_nodes |-> {}, user_nodes |-> {},
     artist_nodes |-> {}, enable_multi_layer |-> multi]

\* _add_track_node; genre and permalink_url are columns the rows here lack
add_track_node(s, track_id, row) ==
    IF track_id \in s.p.track_nodes THEN s
    ELSE [s EXCEPT !.p.graph = AddNode(@, TrackNode(track_id),
                        [node_type |-> "track", title |-> row.title,
                         artist_name |-> row.artist_name, artist_id |-> row.artist_id,
                         playback_count |-> row.playback_count,
                         like_count |-> row.like_count]),
                   !.p.track_nodes = @ \cup {track_id}]

\* SELECT * FROM users WHERE user_id = ?
UserRows(d, user_id) == {w \in d.conn.users : w.user_id = user_id}

\* _add_user_node with the row of an engager
add_user_node_from(s, user_id, user_data) ==
    IF user_id \in s.p.user_nodes THEN s
    ELSE [s EXCEPT !.p.graph = AddNode(@, UserNode(user_id),
                        [node_type |-> "user", user_id |-> user_id,
                         username |-> user_data.username,
                         followers_count |-> user_data.followers_count]),
                   !.p.user_nodes = @ \cup {user_id}]

\* _add_user_node without user_data: the users table is asked
add_user_node(s, user_id) ==
    IF UserRows(s.db, user_id) # {}
    THEN add_user_node_from(s, user_id, CHOOSE w \in UserRows(s.db, user_id) : TRUE)
    ELSE add_user_node_from(s, user_id,
            [username |-> "User " \o ToString(user_id), followers_count |-> 0])

\* _add_artist_node
add_artist_node(s, artist_id) ==
    IF artist_id \in s.p.artist_nodes THEN s
    ELSE [s EXCEPT !.p.graph = AddNode(@, ArtistNode(artist_id),
                        [node_type |-> "artist", artist_id |-> artist_id,
                         artist_name |->
                            IF UserRows(s.db, artist_id) # {}
                            THEN (CHOOSE w \in UserRows(s.db, artist_id) : TRUE).username
                            ELSE "Artist " \o ToString(artist_id)]),
                   !.p.artist_nodes = @ \cup {artist_id}]

\* the body of the loop of _add_layer2_relationships; s.cur is the track
EngagerItem(s, engager) ==
    IF engager.user_id = 0 THEN s
    ELSE [add_user_node_from(s, engager.user_id, engager) EXCEPT
            !.p.graph = AddEdge(@, UserNode(engager.user_id), TrackNode(s.cur[1]),
                                [relation |-> engager.engagement_type, layer |-> 2,
                                 weight |-> Ratio(1, 1)])]

add_layer2_relationships(s, track_id) ==
    ForEach(EngagerItem, s, get_track_engagers(s.db, track_id, Null, 50), 1)

\* the body of the inner loop of _add_layer3_relationships; s.cur is the user
SimilarUserItem(s, similar) ==
    IF similar.similar_user_id = 0 THEN s
    ELSE [add_user_node(s, similar.similar_user_id) EXCEPT
            !.p.graph = AddEdge(@, UserNode(s.cur[1]), UserNode(similar.similar_user_id),
                                [relation |-> similar.similarity_type, layer |-> 3,
                                 weight |-> similar.weight,
                                 common_tracks |-> similar.common_tracks])]

\* the body of the outer loop of _add_layer3_relationships
GraphUserItem(s, user_id) ==
    ForEach(SimilarUserItem, [s EXCEPT !.cur = <<user_id, 0>>, !.asked = Append(@, user_id)],
            get_similar_users(s.db, user_id, Null, Ratio(2, 10), 20), 1)

\* a pass that stops after the first user
add_layer3_relationships_FirstUser(s) ==
    ForEach(GraphUserItem, s, Take(SortedIds(s.p.user_nodes), 1), 1)

\* the users are those in the graph when the pass starts
add_layer3_relationships(s) ==
    ForEach(GraphUserItem, s, SortedIds(s.p.user_nodes), 1)

\* the body of the loop of _add_layer4_relationships; s.cur is the artist
RelatedArtistItem(s, related) ==
    IF related.related_artist_id = 0 THEN s
    ELSE [add_artist_node(s, related.related_artist_id) EXCEPT
            !.p.graph = AddEdge(@, ArtistNode(s.cur[1]),
                                ArtistNode(related.related_artist_id),
                                [relation |-> related.relationship_type, layer |-> 4,
                                 weight |-> related.weight,
                                 evidence_count |-> related.evidence_count])]

add_layer4_relationships(s, artist_id) ==
    ForEach(RelatedArtistItem, [add_artist_node(s, artist_id) EXCEPT !.cur = <<artist_id, 0>>],
            get_related_artists(s.db, artist_id, Null, Ratio(3, 10), 20), 1)

\* an expansion that queues a related track at the depth of the track it
\* was found from
RelatedEdgeItem_SameDepth(s, rel) ==
    LET linked == [s EXCEPT !.p.graph =
                        AddEdge(@, TrackNode(s.cur[1]), TrackNode(rel.track_id),
                                [weight |-> rel.weight, relation |-> rel.relation_type,
                                 layer |-> 1])]
    IN  IF rel.track_id \notin s.visited
        THEN [linked EXCEPT !.queue = Append(@, <<rel.track_id, s.cur[2]>>)]
        ELSE linked

\* the body of the Layer 1 loop for one related row; s.cur is the track
\* being processed and its depth
RelatedEdgeItem(s, rel) ==
    LET linked == [s EXCEPT !.p.graph =
                        AddEdge(@, TrackNode(s.cur[1]), TrackNode(rel.track_id),
                                [weight |-> rel.weight, relation |-> rel.relation_type,
                                 layer |-> 1])]
    IN  IF rel.track_id \notin s.visited
        THEN [linked EXCEPT !.queue = Append(@, <<rel.track_id, s.cur[2] + 1>>)]
        ELSE linked

\* the processing of one entry (track_id, depth) of a batch
TrackItem(s, item) ==
    LET track_data == get_track(s.db, item[1])
        s0 == [s EXCEPT !.fetched = Append(@, item[1])]
        s1 == add_track_node([s0 EXCEPT !.cur = item], item[1], track_data.row)
        s2 == IF 1 \in s.layers /\ item[2] < s.max_depth
              THEN ForEach(RelatedEdgeItem, [s1 EXCEPT !.expanded = Append(@, item[1])],
                           get_related_tracks(s.db, item[1], Null, 20), 1)
              ELSE s1
        s3 == IF 2 \in s.layers /\ s.p.enable_multi_layer
              THEN add_layer2_relationships(s2, item[1]) ELSE s2
    IN  IF ~track_data.found THEN s0
        ELSE IF 4 \in s.layers /\ s.p.enable_multi_layer /\ track_data.artist_id # 0
        THEN add_layer4_relationships(s3, track_data.artist_id)
        ELSE s3

\* a collection that empties the queue and keeps only what fits the batch
CollectBatch_DropRest(s, batch) ==
    LET fits == SelectSeq(s.queue, LAMBDA it : it[1] \notin s.visited /\ it[2] <= s.max_depth)
        taken == Take(fits, s.batch_size)
    IN  [s |-> [s EXCEPT !.queue = <<>>,
                         !.visited = @ \cup {taken[i][1] : i \in 1..Len(taken)}],
         batch |-> batch \o taken]

RECURSIVE CollectBatch_NoVisited(_, _)
\* a collection that takes an entry whether or not its track was visited
CollectBatch_NoVisited(s, batch) ==
    IF s.queue = <<>> \/ Len(batch) >= s.batch_size THEN [s |-> s, batch |-> batch]
    ELSE LET item == Head(s.queue)
             rest == [s EXCEPT !.queue = Tail(@)]
         IN  IF item[2] <= s.max_depth
             THEN CollectBatch_NoVisited([rest EXCEPT !.visited = @ \cup {item[1]}],
                                         Append(batch, item))
             ELSE CollectBatch_NoVisited(rest, batch)

RECURSIVE CollectBatch(_, _)
\* the inner while loop: entries are popped until the batch is full or the
\* queue is empty; an entry already visited or too deep is dropped
CollectBatch(s, batch) ==
    IF s.queue = <<>> \/ Len(batch) >= s.batch_size THEN [s |-> s, batch |-> batch]
    ELSE LET item == Head(s.queue)
             rest == [s EXCEPT !.queue = Tail(@)]
         IN  IF item[1] \notin s.visited /\ item[2] <= s.max_depth
             THEN CollectBatch([rest EXCEPT !.visited = @ \cup {item[1]}],
                               Append(batch, item))
             ELSE CollectBatch(rest, batch)

RECURSIVE BuildLoop(_)
\* the outer while loop
BuildLoop(s) ==
    IF s.queue = <<>> THEN s
    ELSE LET c == CollectBatch(s, <<>>)
         IN  IF c.batch = <<>> THEN c.s
             ELSE BuildLoop(ForEach(TrackItem, c.s, c.batch, 1))

\* the locals of build_from_seed before the loop: visited, the queue, and
\* three logs of the calls made on the cache: asked, the users
\* get_similar_users has been called for, fetched, the track ids get_track
\* has been called with, and expanded, those get_related_tracks has been
\* called with
BuildStart(p, d, seed_track_id, max_depth, layers, batch_size) ==
    [p |-> p, db |-> d, err |-> "ok", max_depth |-> max_depth,
     layers |-> layers, batch_size |-> batch_size,
     visited |-> {}, queue |-> <<(<<seed_track_id, 0>>)>>,
     cur |-> <<seed_track_id, 0>>, asked |-> <<>>, fetched |-> <<>>,
     expanded |-> <<>>]

\* the Layer 3 step that follows the loop
AfterLoop(s) ==
    IF 3 \in s.layers /\ s.p.enable_multi_layer THEN add_layer3_relationships(s) ELSE s

\* build_from_seed on the PersonalGraph p over the cache d; the result is
\* the PersonalGraph after the call
build_from_seed(p, d, seed_track_id, max_depth, layers, batch_size) ==
    AfterLoop(BuildLoop(BuildStart(p, d, seed_track_id, max_depth, layers, batch_size))).p


\* a + b and r * n on the exact floats
RatioSum(a, b) == Ratio(a.num * b.den + b.num * a.den, a.den * b.den)
RatioTimes(r, n) == Ratio(r.num * n, r.den)

\* weight = self.graph[neighbor][candidate].get("weight", 1.0)
EdgeWeight(g, neighbor, candidate) ==
    AdjacencyGet(g, neighbor, candidate, "weight", Ratio(1, 1))

RECURSIVE TotalWeight(_, _, _)
TotalWeight(g, from, candidate) ==
    IF from = {} THEN Ratio(0, 1)
    ELSE LET neighbor == CHOOSE n \in from : TRUE
         IN  RatioSum(EdgeWeight(g, neighbor, candidate),
                      TotalWeight(g, from \ {neighbor}, candidate))

\* the candidates dict: the neighbours of the direct neighbours that are
\* neither the seed nor a direct neighbour, each with the neighbours that
\* lead to it
Candidates(g, track_id) ==
    LET direct_neighbors == Neighbors(g, TrackNode(track_id))
        found == UNION {Neighbors(g, n) : n \in direct_neighbors}
                    \ (direct_neighbors \cup {TrackNode(track_id)})
    IN  [c \in found |-> {n \in direct_neighbors : c \in Neighbors(g, n)}]

\* one entry of the recommendations list
Recommendation(g, common, candidate) ==
    [track_id |-> candidate.id,
     title |-> IF "title" \in DOMAIN g.nodes[candidate]
               THEN g.nodes[candidate].title ELSE Null,
     common_neighbors |-> Cardinality(common[candidate]),
     score |-> RatioTimes(TotalWeight(g, common[candidate], candidate),
                          Cardinality(common[candidate]))]

RECURSIVE StableByScoreDesc(_)
\* list.sort(key=score, reverse=True): equal scores keep their order
StableByScoreDesc(recs) ==
    IF recs = <<>> THEN <<>>
    ELSE LET i == CHOOSE k \in 1..Len(recs) :
                    /\ \A j \in 1..Len(recs) : AtLeast(recs[k].score, recs[j].score)
                    /\ \A j \in 1..(k - 1) : ~AtLeast(recs[j].score, recs[k].score)
         IN  <<recs[i]>> \o
             StableByScoreDesc(SubSeq(recs, 1, i - 1) \o SubSeq(recs, i + 1, Len(recs)))

\* a sort that puts the lowest score first
RankAndCut_Ascending(recs, limit) ==
    Take(Reversed(StableByScoreDesc(recs)), limit)

\* recommendations.sort(...); return recommendations[:limit]
RankAndCut(recs, limit) == Take(StableByScoreDesc(recs), limit)

\* get_recommendations; order is the order in which the candidates entered
\* the dict, which follows the iteration order of a set
get_recommendations(g, track_id, limit, min_common_neighbors, order) ==
    IF TrackNode(track_id) \notin DOMAIN g.nodes THEN <<>>
    ELSE LET common == Candidates(g, track_id)
             kept == SelectSeq(order, LAMBDA c :
                        Cardinality(common[c]) >= min_common_neighbors)
         IN  RankAndCut([i \in 1..Len(kept) |-> Recommendation(g, common, kept[i])],
                        limit)

\* the attribute dict d without the names in taken
Without(d, taken) == [k \in DOMAIN d \ taken |-> d[k]]

\* nx.node_link_data: a node is its attribute dict with "id" set to its
\* name, a link the attribute dict of the edge with "source", "target" and
\* "key" set
node_link_data(g) ==
    [directed |-> TRUE, multigraph |-> TRUE,
     nodes |-> {("id" :> n) @@ g.nodes[n] : n \in DOMAIN g.nodes},
     links |-> {[source |-> e.u, target |-> e.v, key |-> e.key] @@ e.attrs :
                    e \in g.edges}]

\* a reader that builds a DiGraph: the edges between two nodes collapse
node_link_graph_Simple(data) ==
    [nodes |-> [n \in {d.id : d \in data.nodes} |->
                    Without(CHOOSE d \in data.nodes : d.id = n, {"id"})],
     edges |-> {[u |-> l.source, v |-> l.target, key |-> 0,
                 attrs |-> Without(CHOOSE m \in data.links :
                                        m.source = l.source /\ m.target = l.target,
                                   {"source", "target", "key"})] :
                    l \in data.links}]

\* nx.node_link_graph: the node is the "id" of the dict and the rest its
\* attributes; an edge is added with its key and the rest of the link as
\* attributes, which creates ends the node list did not name
node_link_graph(data) ==
    LET named == [n \in {d.id : d \in data.nodes} |->
                    Without(CHOOSE d \in data.nodes : d.id = n, {"id"})]
        ends == {l.source : l \in data.links} \cup {l.target : l \in data.links}
    IN  [nodes |-> named @@ [n \in ends |-> NoAttrs],
         edges |-> {[u |-> l.source, v |-> l.target, key |-> l.key,
                     attrs |-> Without(l, {"source", "target", "key"})] :
                        l \in data.links}]

\* export_to_json: the file holds the node-link data; the numbers, strings
\* and names of a built graph are written and read back as themselves
export_to_json(p) == node_link_data(p.graph)

\* the nodes whose node_type is t
NodesOfType(g, t) ==
    {n \in DOMAIN g.nodes :
        "node_type" \in DOMAIN g.nodes[n] /\ g.nodes[n].node_type = t}

\* load_from_json into the PersonalGraph p: the graph is replaced, the
\* track and artist sets are rebuilt from the names of the nodes (the name
\* of a track is its id), the user set is left as it was
load_from_json(p, data) ==
    LET g == node_link_graph(data)
    IN  [p EXCEPT !.graph = g,
                  !.track_nodes = {n.id : n \in NodesOfType(g, "track")},
                  !.artist_nodes = NodesOfType(g, "artist")]

\* dict.get(name, default) on an attribute dict
AttrOr(attrs, name, default) == IF name \in DOMAIN attrs THEN attrs[name] ELSE default

\* the edges leaving n
OutEdges(g, n) == {e \in g.edges : e.u = n}

\* one entry of the list get_neighbors returns, for the edge e
NeighborInfo(g, e) ==
    LET node_data == g.nodes[e.v]
        node_type == AttrOr(node_data, "node_type", "track")
        neighbor_info == [node_id |-> e.v, node_type |-> node_type,
                          weight |-> AttrOr(e.attrs, "weight", Ratio(1, 1)),
                          relation |-> AttrOr(e.attrs, "relation", "related"),
                          layer |-> AttrOr(e.attrs, "layer", 1)]
    IN  IF node_type = "track"
        THEN neighbor_info @@ [track_id |-> e.v,
                               title |-> AttrOr(node_data, "title", Null),
                               artist_name |-> AttrOr(node_data, "artist_name", Null)]
        ELSE IF node_type = "user"
        THEN neighbor_info @@ [user_id |-> AttrOr(node_data, "user_id", 0),
                               username |-> AttrOr(node_data, "username", Null)]
        ELSE IF node_type = "artist"
        THEN neighbor_info @@ [artist_id |-> AttrOr(node_data, "artist_id", 0),
                               artist_name |-> AttrOr(node_data, "artist_name", Null)]
        ELSE neighbor_info

RECURSIVE StableByWeightDesc(_)
\* list.sort(key = weight, reverse = True): stable
StableByWeightDesc(items) ==
    IF items = <<>> THEN <<>>
    ELSE LET i == CHOOSE k \in 1..Len(items) :
                    /\ \A j \in 1..Len(items) : AtLeast(items[k].weight, items[j].weight)
                    /\ \A j \in 1..(k - 1) : ~AtLeast(items[j].weight, items[k].weight)
         IN  <<items[i]>> \o
             StableByWeightDesc(SubSeq(items, 1, i - 1) \o SubSeq(items, i + 1, Len(items)))

\* a variant that ignores the layer argument
get_neighbors_AnyLayer(g, n, limit, layer, order) ==
    IF n \notin DOMAIN g.nodes THEN <<>>
    ELSE Take(StableByWeightDesc([i \in 1..Len(order) |-> NeighborInfo(g, order[i])]), limit)

\* get_neighbors; layer is <<>> for None and <<k>> for layer k, order is the
\* order in which the loops meet the edges leaving n
get_neighbors(g, n, limit, layer, order) ==
    IF n \notin DOMAIN g.nodes THEN <<>>
    ELSE LET kept == SelectSeq(order, LAMBDA e :
                        ~(layer # <<>> /\ AttrOr(e.attrs, "layer", 1) # layer[1]))
         IN  Take(StableByWeightDesc([i \in 1..Len(kept) |-> NeighborInfo(g, kept[i])]),
                  limit)

\* get_track_via_user_path, the body of the inner loop; s.via is the user
\* node the outer loop is at
ViaTrackItem(s, track_neighbor_id) ==
    IF s.done \/ track_neighbor_id \in s.visited_tracks THEN s
    ELSE LET track_node == IF track_neighbor_id \in DOMAIN s.g.nodes
                           THEN s.g.nodes[track_neighbor_id] ELSE NoAttrs
         IN  IF AttrOr(track_node, "node_type", Null) # "track" THEN s
             ELSE LET results == Append(s.results,
                        [track_id |-> track_neighbor_id,
                         title |-> AttrOr(track_node, "title", Null),
                         artist_name |-> AttrOr(track_node, "artist_name", Null),
                         via_user |-> AttrOr(s.g.nodes[s.via], "username", Null),
                         via_user_id |-> AttrOr(s.g.nodes[s.via], "user_id", 0)])
                  IN  [s EXCEPT !.visited_tracks = @ \cup {track_neighbor_id},
                                !.results = results,
                                !.done = Len(results) >= s.limit]

\* get_track_via_user_path, the body of the outer loop
ViaUserItem(s, neighbor_id) ==
    IF s.done \/ AttrOr(s.g.nodes[neighbor_id], "node_type", Null) # "user" THEN s
    ELSE ForEach(ViaTrackItem, [s EXCEPT !.via = neighbor_id], s.inner[neighbor_id], 1)

\* get_track_via_user_path; outer is the order in which the successors of
\* the track are met, inner[u] the order of the successors of u
get_track_via_user_path(g, track_id, limit, outer, inner) ==
    IF TrackNode(track_id) \notin DOMAIN g.nodes THEN <<>>
    ELSE ForEach(ViaUserItem,
                 [g |-> g, results |-> <<>>, visited_tracks |-> {TrackNode(track_id)},
                  limit |-> limit, inner |-> inner, via |-> TrackNode(track_id),
                  done |-> FALSE, err |-> "ok"],
                 outer, 1).results

\* the statistics build_from_seed returns
BuildStats(p, seed_track_id, max_depth, layers) ==
    [nodes |-> Cardinality(DOMAIN p.graph.nodes), edges |-> Cardinality(p.graph.edges),
     track_nodes |-> Cardinality(p.track_nodes), user_nodes |-> Cardinality(p.user_nodes),
     artist_nodes |-> Cardinality(p.artist_nodes), seed_track_id |-> seed_track_id,
     max_depth |-> max_depth, layers_included |-> layers]

\* get_graph_stats: the counts; density, the degrees and the number of
\* components are left out
get_graph_stats(p) ==
    IF DOMAIN p.graph.nodes = {}
    THEN [nodes |-> 0, edges |-> 0]
    ELSE LET counts == [nodes |-> Cardinality(DOMAIN p.graph.nodes),
                        edges |-> Cardinality(p.graph.edges),
                        track_nodes |-> Cardinality(p.track_nodes),
                        user_nodes |-> Cardinality(p.user_nodes),
                        artist_nodes |-> Cardinality(p.artist_nodes)]
             layer_counts == [k \in 1..4 |->
                                Cardinality({e \in p.graph.edges :
                                                AttrOr(e.attrs, "layer", 1) = k})]
         IN  IF p.enable_multi_layer
             THEN counts @@ [layer1_edges |-> layer_counts[1], layer2_edges |-> layer_counts[2],
                             layer3_edges |-> layer_counts[3], layer4_edges |-> layer_counts[4]]
             ELSE counts

\* no graph built, nothing asked, nothing exported
GrIdle ==
    [p |-> NewGraph(FALSE), built |-> FALSE,
     seed |-> 0, max_depth |-> 0, layers |-> {}, batch_size |-> 0,
     asked |-> FALSE, track_id |-> 0, limit |-> 0, min_common_neighbors |-> 0,
     recs |-> <<>>, exported |-> FALSE, data |-> node_link_data(EmptyGraph),
     loaded |-> FALSE, fresh |-> NewGraph(FALSE),
     nb_asked |-> FALSE, nb_node |-> TrackNode(0), nb_limit |-> 0, nb_layer |-> <<>>,
     neighbors |-> <<>>,
     via_asked |-> FALSE, via_track |-> 0, via_limit |-> 0, via |-> <<>>,
     bpc |-> "idle", rebuilt |-> FALSE, twice |-> NewGraph(FALSE),
     bs |-> BuildStart(NewGraph(FALSE), EmptyDb, 0, 0, {}, 0)]


(***************************************************************************)
(* The SoundCloud client as the engine sees it                             *)
(***************************************************************************)

\* a search string: the text, and whether the engine put it in double quotes
Query(text, quoted) == [text |-> text, quoted |-> quoted]

NoQuery == Query("", FALSE)

\* self.sc.<ep>(id or query, limit=limit, offset=offset)
ApiCall(ep, arg, q, limit) == [ep |-> ep, arg |-> arg, q |-> q, limit |-> limit]

CallKey(call) == [ep |-> call.ep, arg |-> call.arg, q |-> call.q]

\* the whole collection the remote source holds for a call
RemoteList(w, call) ==
    LET hits == {i \in DOMAIN w.data : w.data[i].key = CallKey(call)}
    IN  IF hits = {} THEN <<>> ELSE w.data[CHOOSE i \in hits : TRUE].list

\* the endpoints whose client method catches every exception and returns []
SwallowingEndpoints == {"track_favoriters", "track_reposters", "user_likes"}

\* one client call: _get raises when the request fails; track_favoriters,
\* track_reposters and user_likes turn that into an empty list, search_tracks
\* and user_playlists let it through
RemoteCall(w, call, offset) ==
    LET list == RemoteList(w, call)
    IN  IF [key |-> CallKey(call), offset |-> offset] \in w.faults
        THEN IF call.ep \in SwallowingEndpoints
             THEN [ok |-> TRUE, batch |-> <<>>]
             ELSE [ok |-> FALSE, batch |-> <<>>]
        ELSE IF offset >= Len(list)
        THEN [ok |-> TRUE, batch |-> <<>>]
        ELSE [ok |-> TRUE,
              batch |-> SubSeq(list, offset + 1, Min(offset + call.limit, Len(list)))]

(***************************************************************************)
(* DeepHarvestEngine                                                       *)
(***************************************************************************)

\* the attributes __init__ reads from the config dict; the threshold is in
\* percent
EngineOf(config) ==
    [max_users_per_track |-> config.max_users_per_track,
     max_tracks_per_user |-> config.max_tracks_per_user,
     max_playlists |-> config.max_playlists,
     max_artist_tracks |-> config.max_artist_tracks,
     fuzzy_search_limit |-> config.fuzzy_search_limit,
     name_similarity_threshold |-> config.name_similarity_threshold,
     enable_commentary_layer |-> config.enable_commentary_layer,
     enable_label_layer |-> config.enable_label_layer,
     enable_contextual_layer |-> config.enable_contextual_layer]

\* {k: 0 for k in self.harvest_stats}
ZeroStats ==
    [tracks_collected |-> 0, users_collected |-> 0, playlists_collected |-> 0,
     artists_collected |-> 0, labels_detected |-> 0, entities_extracted |-> 0,
     api_requests |-> 0]

RECURSIVE PaginateLoop(_, _, _, _)
\* the while loop of _fetch_all_paginated against the client
PaginateLoop(w, call, max_results, p) ==
    IF p.pc # "loop" THEN p
    ELSE PaginateLoop(w, call, max_results,
                      PageStep(RemoteCall(w, call, p.offset), max_results, p))

\* a whole call of _fetch_all_paginated
fetch_all_paginated(w, call, max_results) ==
    PageReturn(max_results, PaginateLoop(w, call, max_results, PgStart))

\* a paginated fetch made by a phase: its requests are counted in
\* harvest_stats['api_requests'], its result is e.res
Paginate(e, w, call, max_results) ==
    LET p == fetch_all_paginated(w, call, max_results)
    IN  [e EXCEPT !.stats.api_requests = @ + p.api_requests,
                  !.pages = Append(@, [phase |-> e.phase, call |-> call,
                                       max_results |-> max_results,
                                       log |-> p.log, ret |-> p.ret]),
                  !.res = p.ret]

\* a cache call made by a phase, with outcome r: the database it leaves and
\* the exception it raised, if any
Wrote(e, r, name, a, b) ==
    IF r.err = "ok"
    THEN [e EXCEPT !.db = r.db,
                   !.wlog = Append(@, [phase |-> e.phase, op |-> name, a |-> a, b |-> b])]
    ELSE [e EXCEPT !.db = r.db, !.err = r.err]

\* a variant that drops the id-less records and keeps every other one
DictById_KeepAll(items, i, acc) ==
    acc \o SelectSeq(SubSeq(items, i, Len(items)), LAMBDA x : x.id # 0)

\* a dict keyed by id of the items that have one: first-insertion order, the
\* last value given for a key
RECURSIVE DictById(_, _, _)
DictById(items, i, acc) ==
    IF i > Len(items) THEN acc
    ELSE IF items[i].id = 0 THEN DictById(items, i + 1, acc)
    ELSE IF \E j \in DOMAIN acc : acc[j].id = items[i].id
    THEN DictById(items, i + 1,
                  [j \in DOMAIN acc |-> IF acc[j].id = items[i].id THEN items[i] ELSE acc[j]])
    ELSE DictById(items, i + 1, Append(acc, items[i]))

\* _cache_track_data: the embedded user is cached whenever the dict is not empty
cache_track_data(e, track_data) ==
    IF track_data.id = 0 THEN e
    ELSE LET e1 == Wrote(e, cache_track(e.db, track_data), "cache_track", track_data.id, 0)
         IN  IF e1.err # "ok" THEN e1
             ELSE LET e2 == [e1 EXCEPT !.stats.tracks_collected = @ + 1]
                  IN  IF ~track_data.user.present THEN e2
                      ELSE Wrote(e2, cache_user(e2.db, track_data.user),
                                 "cache_user", track_data.user.id, 0)

harvest_playlist_tracks(e, playlist_data) ==
    IF playlist_data.id = 0 THEN e
    ELSE LET e1 == Wrote(e, cache_playlist(e.db, playlist_data),
                         "cache_playlist", playlist_data.id, 0)
         IN  IF e1.err # "ok" THEN e1
             ELSE LET e2 == [e1 EXCEPT !.stats.playlists_collected = @ + 1]
                      tracks == playlist_data.tracks
                  IN  IF Len(tracks) = 0 THEN e2
                      ELSE LET e3 == ForEach(cache_track_data, e2, tracks, 1)
                           IN  IF e3.err # "ok" THEN e3
                               ELSE Wrote(e3, cache_playlist_tracks(e3.db, playlist_data.id, tracks),
                                          "cache_playlist_tracks", playlist_data.id, 0)

\* a variant that records the engagement without caching the track
LikedTrackItem_RecordOnly(e, x) ==
    IF x.track.id = 0 THEN e
    ELSE Wrote(e, add_user_engagement(e.db, x.user_id, x.track.id, "like", 1),
               "add_user_engagement", x.user_id, x.track.id)

\* Phase 1, the body of the loop over a user's library
LikedTrackItem(e, x) ==
    IF x.track.id = 0 THEN e
    ELSE LET e1 == cache_track_data(e, x.track)
         IN  IF e1.err # "ok" THEN e1
             ELSE Wrote(e1, add_user_engagement(e1.db, x.user_id, x.track.id, "like", 1),
                        "add_user_engagement", x.user_id, x.track.id)

\* Phase 1, the body of the loop over all_users
UserItem(e, user_data, w, eng, track_id) ==
    LET e1 == Wrote(e, cache_user(e.db, user_data), "cache_user", user_data.id, 0)
    IN  IF e1.err # "ok" THEN e1
        ELSE LET e2 == [e1 EXCEPT !.stats.users_collected = @ + 1]
                 e3 == Wrote(e2, add_user_engagement(e2.db, user_data.id, track_id, "like", 1),
                             "add_user_engagement", user_data.id, track_id)
                 e4 == Paginate(e3, w, ApiCall("user_likes", user_data.id, NoQuery, PageSize),
                                eng.max_tracks_per_user)
             IN  ForEach(LikedTrackItem, e4,
                         [i \in 1..Len(e4.res) |-> [user_id |-> user_data.id, track |-> e4.res[i]]],
                         1)

\* Phase 1: likers, reposters, then every distinct user and their library
harvest_user_depth(e, w, eng, track_id) ==
    LET e1 == Paginate(e, w, ApiCall("track_favoriters", track_id, NoQuery, PageSize),
                       eng.max_users_per_track)
        e2 == Paginate(e1, w, ApiCall("track_reposters", track_id, NoQuery, PageSize),
                       eng.max_users_per_track)
        all_users == DictById(e1.res \o e2.res, 1, <<>>)
    IN  ForEach(LAMBDA s, u : UserItem(s, u, w, eng, track_id), e2, all_users, 1)

\* Phase 2: the playlists of the seed's artist
harvest_playlist_depth(e, w, eng, track_data) ==
    IF ~track_data.user.present \/ track_data.user.id = 0 THEN e
    ELSE LET e1 == Paginate(e, w, ApiCall("user_playlists", track_data.user.id, NoQuery, PageSize),
                            eng.max_playlists)
         IN  ForEach(harvest_playlist_tracks, e1, e1.res, 1)

\* Phase 3: the artist, then the search results that are the artist's own
harvest_artist_depth(e, w, eng, track_data) ==
    LET artist == track_data.user
    IN  IF ~artist.present \/ artist.id = 0 THEN e
        ELSE LET e1 == Wrote(e, cache_user(e.db, artist), "cache_user", artist.id, 0)
             IN  IF e1.err # "ok" THEN e1
                 ELSE LET e2 == [e1 EXCEPT !.stats.artists_collected = @ + 1]
                          search_query == Query(GetOr(artist.username, ""), TRUE)
                          e3 == Paginate(e2, w, ApiCall("search_tracks", 0, search_query, PageSize),
                                         eng.max_artist_tracks)
                          confirmed_tracks ==
                              SelectSeq(e3.res, LAMBDA t : t.user.present /\ t.user.id = artist.id)
                      IN  ForEach(cache_track_data, e3, confirmed_tracks, 1)

\* re.findall(r'\b[a-zA-Z]+\b', text.lower()) on the titles of the model
Words(text) ==
    CASE text = "Night Drive" -> <<"night", "drive">>
      [] text = "A" -> <<"a">>
      [] OTHER -> <<>>

\* the stopwords of _extract_key_terms
Stopwords ==
    {"the", "a", "an", "and", "or", "but", "in", "on", "at", "to", "for",
     "of", "with", "by", "from", "as", "is", "was", "are", "were", "been"}

\* the words of the model with at most two letters
ShortWords == {"a"}

extract_key_terms(text) ==
    SelectSeq(Words(text), LAMBDA x : x \notin Stopwords /\ x \notin ShortWords)

\* SequenceMatcher(None, s1.lower(), s2.lower()).ratio() in percent, rounded
\* down, on the titles of the model
string_similarity(s1, s2) ==
    IF s1 = s2 THEN 100
    ELSE CASE {s1, s2} = {"Night Drive", "Night Drive Remix"} -> 78
           [] {s1, s2} = {"Night Drive", "Morning Coffee"} -> 40
           [] OTHER -> 0

\* Phase 4, the body of the loop over the search results of a term
SimilarItem(e, track, eng, title) ==
    IF track.title = Null THEN [e EXCEPT !.err = "AttributeError"]
    ELSE IF string_similarity(title, GetOr(track.title, "")) >= eng.name_similarity_threshold
    THEN cache_track_data(e, track)
    ELSE e

\* Phase 4, the body of the loop over key_terms[:3]
TermItem(e, term, w, eng, title) ==
    LET e1 == Paginate(e, w, ApiCall("search_tracks", 0, Query(term, FALSE), PageSize),
                       eng.fuzzy_search_limit)
    IN  ForEach(LAMBDA s, t : SimilarItem(s, t, eng, title), e1, e1.res, 1)

\* Phase 4: a search per key term of the seed's title
harvest_semantic_depth(e, w, eng, track_data) ==
    LET title == GetOr(track_data.title, "")
    IN  IF title \in {"", Null} THEN e
        ELSE ForEach(LAMBDA s, term : TermItem(s, term, w, eng, title),
                     e, Take(extract_key_terms(title), 3), 1)

\* Phase 5: a placeholder that only logs
harvest_commentary_depth(e, track_id) == e


\* the description of the model's seed track
DescMoon == "released on Moon Records, thanks @bob"

\* the matches of label_patterns on the descriptions of the model
LabelPatterns(description) ==
    IF description = DescMoon THEN {"Moon Records"} ELSE {}

\* list(a_set): the elements in some order
AsList(S) ==
    CHOOSE s \in [1..Cardinality(S) -> S] : {s[i] : i \in DOMAIN s} = S

\* label.lower() in label_name.lower() on the labels of the model
LabelIn(label, label_name) ==
    label_name \in (IF label = "Moon Records"
                    THEN {"Moon Records", "moon records ltd"}
                    ELSE {label})

\* max_results of the label catalog search, deep_harvest.py line 384
LabelCatalogSize == 200

\* limit and max_results of the entity search, deep_harvest.py lines 438-439
EntitySearchLimit == 20
EntityMaxResults == 50

\* Phase 6, the body of the loop over a label's catalog
LabelTrackItem(e, track, label) ==
    IF LabelIn(label, track.label_name) THEN cache_track_data(e, track) ELSE e

\* Phase 6, the body of the loop over list(labels_found)[:3]
LabelItem(e, label, w) ==
    LET e1 == Paginate(e, w, ApiCall("search_tracks", 0, Query(label, FALSE), PageSize),
                       LabelCatalogSize)
    IN  ForEach(LAMBDA s, t : LabelTrackItem(s, t, label), e1, e1.res, 1)

\* Phase 6: the label field and the labels named in the description
harvest_label_depth(e, w, track_data) ==
    LET labels_found ==
            (IF track_data.label_name # "" THEN {track_data.label_name} ELSE {})
                \cup LabelPatterns(track_data.description)
    IN  IF labels_found = {} THEN e
        ELSE ForEach(LAMBDA s, l : LabelItem(s, l, w),
                     [e EXCEPT !.stats.labels_detected = @ + Cardinality(labels_found)],
                     Take(AsList(labels_found), 3), 1)

\* the @mentions and the feat./remix credits in the title and descriptions
\* of the model
Entities(title, description) ==
    IF description = DescMoon THEN {"bob"} ELSE {}

\* Phase 7, the body of the loop over list(entities)[:10]
EntityItem(e, entity, w) ==
    LET e1 == Paginate(e, w, ApiCall("search_tracks", 0, Query(entity, FALSE), EntitySearchLimit),
                       EntityMaxResults)
    IN  ForEach(cache_track_data, e1, e1.res, 1)

\* Phase 7: a search per entity named by the seed
harvest_contextual_entities(e, w, track_data) ==
    LET entities == Entities(GetOr(track_data.title, ""), track_data.description)
    IN  IF entities = {} THEN e
        ELSE ForEach(LAMBDA s, x : EntityItem(s, x, w),
                     [e EXCEPT !.stats.entities_extracted = @ + Cardinality(entities)],
                     Take(AsList(entities), 10), 1)

\* the seed is read from the cache; there is no remote fetch of a track
fetch_and_cache_track(d, track_id) == get_track(d, track_id)

(***************************************************************************)
(* Configurations and remote sources of the harvest runs                   *)
(***************************************************************************)

\* a config dict that spells out the defaults of __init__; enabled[k] is the
\* "enabled" key of the k-th per-phase section (user_depth, playlist_depth,
\* artist_depth, semantic_depth, commentary_layer, label_layer,
\* contextual_layer), which scripts/deep_harvest.py displays
DefaultConfig ==
    [max_users_per_track |-> 500, max_tracks_per_user |-> 500, max_playlists |-> 200,
     max_artist_tracks |-> 1000, fuzzy_search_limit |-> 100,
     name_similarity_threshold |-> 60,
     enable_commentary_layer |-> TRUE, enable_label_layer |-> TRUE,
     enable_contextual_layer |-> TRUE,
     enabled |-> [k \in 1..7 |-> TRUE]]

Configs ==
    {[DefaultConfig EXCEPT !.enable_commentary_layer = c, !.enable_label_layer = l,
                           !.enable_contextual_layer = x] : c, l, x \in BOOLEAN}
    \cup {[DefaultConfig EXCEPT !.enabled[k] = FALSE] : k \in 1..7}
    \cup {[DefaultConfig EXCEPT !.max_users_per_track = 1]}

SeedId == 1

User20 == UserPayload(20, "bob")
User21 == UserPayload(21, "cy")
User22 == UserPayload(22, "dee")
UserNoId == UserPayload(0, "x")

SeedTrack ==
    [TrackPayload(SeedId, "Night Drive", Artist10, 100, 5)
        EXCEPT !.label_name = "Moon Records", !.description = DescMoon]

\* a seed with no artist, no key term, no label and no entity
BareSeed == TrackPayload(SeedId, "A", NoUser, 0, 0)

Track2 == TrackPayload(2, "B", Artist11, 5, 0)
Track3 == TrackPayload(3, "C", Artist10, 0, 0)
Track4 == TrackPayload(4, "C", NoUser, 0, 0)
Track5 == TrackPayload(5, "Night Drive Remix", Artist10, 3, 1)
Track6 == TrackPayload(6, "Morning Coffee", Artist11, 0, 0)
Track7 == [TrackPayload(7, "B", Artist11, 0, 0) EXCEPT !.label_name = "moon records ltd"]
Track8 == TrackPayload(8, "C", User20, 0, 0)
TrackNoId == TrackPayload(0, "C", Artist10, 9, 9)
TrackUserNoId == TrackPayload(9, "B", UserNoId, 0, 0)

Playlist7 == PlaylistPayload(7, "mix", Artist10, <<Track2, Track4>>)
PlaylistNoId == PlaylistPayload(0, "lost", Artist10, <<Track3>>)

\* length of the long search result, more than one page
BigSize == 52

BigDiscography ==
    [i \in 1..BigSize |-> TrackPayload(100 + i, "Night Drive Remix", Artist10, 0, 0)]

\* length of a search result that fills more than one page of 20
EntityResults == 22

BobMentions ==
    [i \in 1..EntityResults |-> TrackPayload(200 + i, "feat. bob", Artist11, 0, 0)]

Entry(ep, arg, q, list) == [key |-> [ep |-> ep, arg |-> arg, q |-> q], list |-> list]

Fault(ep, arg, q, offset) == [key |-> [ep |-> ep, arg |-> arg, q |-> q], offset |-> offset]

BaseData ==
    <<Entry("track_favoriters", SeedId, NoQuery, <<User20, User21>>),
      Entry("track_reposters", SeedId, NoQuery, <<User21, User22>>),
      Entry("user_likes", 20, NoQuery, <<Track2, SeedTrack>>),
      Entry("user_likes", 21, NoQuery, <<Track3>>),
      Entry("user_playlists", 10, NoQuery, <<Playlist7>>),
      Entry("search_tracks", 0, Query("ann", TRUE), <<Track5, Track6>>),
      Entry("search_tracks", 0, Query("night", FALSE), <<Track5, Track6>>),
      Entry("search_tracks", 0, Query("drive", FALSE), <<Track5>>),
      Entry("search_tracks", 0, Query("Moon Records", FALSE), <<Track7, Track6>>),
      Entry("search_tracks", 0, Query("bob", FALSE), <<Track8>>)>>

\* data with the list of entry's key replaced
With(data, entry) ==
    [i \in DOMAIN data |-> IF data[i].key = entry.key THEN entry ELSE data[i]]

World(name, seed, data, faults) ==
    [name |-> name, seed |-> seed, data |-> data, faults |-> faults]

Worlds ==
    {World("plain", SeedTrack, BaseData, {}),
     World("bare seed", BareSeed, BaseData, {}),
     World("likers fail", SeedTrack, BaseData,
           {Fault("track_favoriters", SeedId, NoQuery, 0)}),
     World("library fails", SeedTrack, BaseData, {Fault("user_likes", 20, NoQuery, 0)}),
     World("playlists fail", SeedTrack, BaseData, {Fault("user_playlists", 10, NoQuery, 0)}),
     World("term search fails", SeedTrack, BaseData,
           {Fault("search_tracks", 0, Query("night", FALSE), 0)}),
     World("second page fails", SeedTrack,
           With(BaseData, Entry("search_tracks", 0, Query("ann", TRUE), BigDiscography)),
           {Fault("search_tracks", 0, Query("ann", TRUE), PageSize)}),
     World("user without id", SeedTrack,
           With(BaseData, Entry("track_favoriters", SeedId, NoQuery,
                                <<UserNoId, User20, User21>>)), {}),
     World("track without id", SeedTrack,
           With(BaseData, Entry("user_likes", 20, NoQuery, <<TrackNoId, Track2>>)), {}),
     World("playlist without id", SeedTrack,
           With(BaseData, Entry("user_playlists", 10, NoQuery, <<PlaylistNoId, Playlist7>>)),
           {}),
     World("playlist entry without id", SeedTrack,
           With(BaseData, Entry("user_playlists", 10, NoQuery,
                    <<PlaylistPayload(7, "mix", Artist10, <<TrackNoId, Track2>>)>>)), {}),
     World("embedded user without id", SeedTrack,
           With(BaseData, Entry("user_likes", 20, NoQuery, <<TrackUserNoId, Track2>>)), {}),
     World("entity with many results", SeedTrack,
           With(BaseData, Entry("search_tracks", 0, Query("bob", FALSE), BobMentions)), {})}

NoWorld == World("none", BareSeed, <<>>, {})

(***************************************************************************)
(* deep_harvest, phase by phase                                            *)
(***************************************************************************)

\* no write recorded yet
NoHistory == [tracks |-> <<>>, sims |-> <<>>, artists |-> <<>>, rels |-> <<>>]

\* no multi-row call in progress
NoOp == [name |-> "none", items |-> <<>>, i |-> 0, stage |-> "",
         before |-> EmptyTables, end |-> "", args |-> <<>>]

NoSource == [pages |-> <<>>, tail |-> 0]

\* number of deep_harvest calls made on one engine
MaxRuns == 2

NoTrack == TrackPayload(0, Missing, NoUser, 0, 0)

\* an engine just constructed: no call of deep_harvest yet; prev is history,
\* the seed the previous call read and the tables that call left
HvIdle ==
    [pc |-> "idle", run |-> 0, seed_track |-> NoTrack, stats |-> ZeroStats,
     pages |-> <<>>, wlog |-> <<>>, ran |-> <<>>, err |-> "ok", ret |-> ZeroStats,
     prev |-> [seed |-> NoTrack, tables |-> EmptyTables]]

\* the engine and the cache as a phase method finds them
Ctx(phase) ==
    [db |-> db, stats |-> hv.stats, pages |-> hv.pages, wlog |-> hv.wlog,
     err |-> "ok", phase |-> phase, res |-> <<>>]

\* a phase method has returned, or has raised: an exception leaves
\* deep_harvest, which catches nothing
AfterPhase(e, phase, next) ==
    /\ db' = e.db
    /\ hv' = [hv EXCEPT !.stats = e.stats, !.pages = e.pages, !.wlog = e.wlog,
                        !.err = e.err, !.ran = Append(@, phase),
                        !.pc = IF e.err = "ok" THEN next ELSE "raised"]

\* a cache file that may already hold the seed, as after the script's
\* cache.cache_track(resolved)
HarvestInit ==
    /\ hvCfg \in Configs
    /\ hvWorld \in Worlds
    /\ db \in {EmptyDb, cache_track(EmptyDb, hvWorld.seed).db}
    /\ hv = HvIdle /\ gr = GrIdle /\ pp = PpIdle
    /\ ncalls = 0 /\ hLast = NoHistory /\ op = NoOp
    /\ pgSrc = NoSource /\ pgMax = 0 /\ pg = PgStart

\* lines 99-106: reset the stats, look the seed up, return early without it
Harvest_Start ==
    /\ hv.pc = "idle" \/ (hv.pc \in {"returned", "raised"} /\ hv.run < MaxRuns)
    /\ LET seed == fetch_and_cache_track(db, SeedId)
       IN  hv' = [hv EXCEPT !.run = @ + 1, !.stats = ZeroStats, !.pages = <<>>,
                            !.wlog = <<>>, !.ran = <<>>, !.err = "ok",
                            !.seed_track = seed.raw_data,
                            !.ret = ZeroStats,
                            !.prev = [seed |-> hv.seed_track, tables |-> db.conn],
                            !.pc = IF seed.found THEN "phase1" ELSE "returned"]
    /\ UNCHANGED <<pp, gr, pgVars, cacheVars, hvCfg, hvWorld>>

Phase1 ==
    /\ hv.pc = "phase1"
    /\ AfterPhase(harvest_user_depth(Ctx(1), hvWorld, EngineOf(hvCfg), SeedId), 1, "phase2")
    /\ UNCHANGED <<pp, gr, pgVars, ncalls, hLast, op, hvCfg, hvWorld>>

Phase2 ==
    /\ hv.pc = "phase2"
    /\ AfterPhase(harvest_playlist_depth(Ctx(2), hvWorld, EngineOf(hvCfg), hv.seed_track),
                  2, "phase3")
    /\ UNCHANGED <<pp, gr, pgVars, ncalls, hLast, op, hvCfg, hvWorld>>

Phase3 ==
    /\ hv.pc = "phase3"
    /\ AfterPhase(harvest_artist_depth(Ctx(3), hvWorld, EngineOf(hvCfg), hv.seed_track),
                  3, "phase4")
    /\ UNCHANGED <<pp, gr, pgVars, ncalls, hLast, op, hvCfg, hvWorld>>

Phase4 ==
    /\ hv.pc = "phase4"
    /\ AfterPhase(harvest_semantic_depth(Ctx(4), hvWorld, EngineOf(hvCfg), hv.seed_track),
                  4, "phase5")
    /\ UNCHANGED <<pp, gr, pgVars, ncalls, hLast, op, hvCfg, hvWorld>>

\* lines 129-132
Phase5 ==
    /\ hv.pc = "phase5"
    /\ IF EngineOf(hvCfg).enable_commentary_layer
       THEN AfterPhase(harvest_commentary_depth(Ctx(5), SeedId), 5, "phase6")
       ELSE hv' = [hv EXCEPT !.pc = "phase6"] /\ UNCHANGED db
    /\ UNCHANGED <<pp, gr, pgVars, ncalls, hLast, op, hvCfg, hvWorld>>

\* lines 135-138
Phase6 ==
    /\ hv.pc = "phase6"
    /\ IF EngineOf(hvCfg).enable_label_layer
       THEN AfterPhase(harvest_label_depth(Ctx(6), hvWorld, hv.seed_track), 6, "phase7")
       ELSE hv' = [hv EXCEPT !.pc = "phase7"] /\ UNCHANGED db
    /\ UNCHANGED <<pp, gr, pgVars, ncalls, hLast, op, hvCfg, hvWorld>>

\* lines 141-144
Phase7 ==
    /\ hv.pc = "phase7"
    /\ IF EngineOf(hvCfg).enable_contextual_layer
       THEN AfterPhase(harvest_contextual_entities(Ctx(7), hvWorld, hv.seed_track), 7, "return")
       ELSE hv' = [hv EXCEPT !.pc = "return"] /\ UNCHANGED db
    /\ UNCHANGED <<pp, gr, pgVars, ncalls, hLast, op, hvCfg, hvWorld>>

\* line 159: return self.harvest_stats
Harvest_Return ==
    /\ hv.pc = "return"
    /\ hv' = [hv EXCEPT !.ret = hv.stats, !.pc = "returned"]
    /\ UNCHANGED <<pp, gr, pgVars, cacheVars, hvCfg, hvWorld>>

HarvestNext ==
    \/ Harvest_Start
    \/ Phase1 \/ Phase2 \/ Phase3 \/ Phase4 \/ Phase5 \/ Phase6 \/ Phase7
    \/ Harvest_Return

SpecHarvest == HarvestInit /\ [][HarvestNext]_vars

(***************************************************************************)
(* Calls of the cache's write operations, in any order                     *)
(***************************************************************************)

\* f with key k set to v
Put(f, k, v) == [x \in DOMAIN f \cup {k} |-> IF x = k THEN v ELSE f[x]]

\* a fresh cache file, no call made yet, the paginator idle
CacheInit ==
    /\ db = EmptyDb /\ ncalls = 0 /\ hLast = NoHistory /\ op = NoOp
    /\ pgSrc = NoSource /\ pgMax = 0 /\ pg = PgStart
    /\ hvCfg = DefaultConfig /\ hvWorld = NoWorld /\ hv = HvIdle /\ gr = GrIdle /\ pp = PpIdle

\* number of cache_track / cache_tracks_batch calls in a run
MaxTrackCalls == 4

TrackPayloads ==
    {TrackPayload(1, "A", Artist10, 5, 2),
     TrackPayload(1, "A", Artist10, 7, 2),
     TrackPayload(1, Missing, NoUser, 0, 0),
     TrackPayload(2, "B", Artist11, 5, 0),
     TrackPayload(2, "B", Artist11, 5, 4),
     TrackPayload(3, "A", NoUser, 1, 0),
     TrackPayload(3, "C", Artist10, 0, 0),
     TrackPayload(0, "C", Artist10, 9, 9),
     TrackPayload(2, Null, Artist10, 1, 1)}

TrackLists ==
    {<<>>,
     <<TrackPayload(1, "A", Artist10, 5, 2), TrackPayload(2, "B", Artist11, 5, 0)>>,
     <<TrackPayload(2, "B", Artist11, 5, 0), TrackPayload(0, "C", Artist10, 9, 9),
       TrackPayload(1, Missing, NoUser, 0, 0)>>,
     <<TrackPayload(1, "A", Artist10, 5, 2), TrackPayload(1, "A", Artist10, 7, 2)>>,
     <<TrackPayload(3, "C", Artist10, 0, 0), TrackPayload(2, "B", Artist11, 5, 4),
       TrackPayload(3, "A", NoUser, 1, 0)>>,
     <<TrackPayload(1, "A", Artist10, 7, 2), TrackPayload(2, Null, Artist10, 1, 1)>>}

\* the last payload of a list that carries the id
LastWithId(tds, id) ==
    tds[CHOOSE i \in 1..Len(tds) :
            /\ tds[i].id = id
            /\ \A j \in (i + 1)..Len(tds) : tds[j].id # id]

IdsOf(tds) == {tds[i].id : i \in 1..Len(tds)} \ {0}

RECURSIVE PutAll(_, _, _)
PutAll(f, tds, ids) ==
    IF ids = {} THEN f
    ELSE LET id == CHOOSE x \in ids : TRUE
         IN  PutAll(Put(f, id, LastWithId(tds, id)), tds, ids \ {id})

CacheTrackCall ==
    /\ ncalls < MaxTrackCalls
    /\ \E td \in TrackPayloads :
        LET r == cache_track(db, td)
        IN  /\ db' = r.db
            /\ hLast' = IF r.err = "ok"
                         THEN [hLast EXCEPT !.tracks = Put(@, td.id, td)]
                         ELSE hLast
    /\ ncalls' = ncalls + 1
    /\ UNCHANGED <<pp, gr, hvVars, pgVars, op>>

CacheTracksBatchCall ==
    /\ ncalls < MaxTrackCalls
    /\ \E tds \in TrackLists :
        LET r == cache_tracks_batch(db, tds)
        IN  /\ db' = r.db
            /\ hLast' = IF r.err = "ok"
                         THEN [hLast EXCEPT !.tracks = PutAll(@, tds, IdsOf(tds))]
                         ELSE hLast
    /\ ncalls' = ncalls + 1
    /\ UNCHANGED <<pp, gr, hvVars, pgVars, op>>

TracksNext == CacheTrackCall \/ CacheTracksBatchCall

SpecTracks == CacheInit /\ [][TracksNext]_vars

\* number of add_user_similarity / add_artist_relationship calls in a run
MaxPairCalls == 4

PairIds == {1, 2}
SimilarityTypes == {"jaccard_likes", "follow"}
RelationshipTypes == {"co_library", "collaboration"}
Scores == {250, 750}

\* the like-library size handed in for a user
TotalOf_(u) == 10 + u

AddUserSimilarityCall ==
    /\ ncalls < MaxPairCalls
    /\ \E a \in PairIds, b \in PairIds, t \in SimilarityTypes, s \in Scores :
        LET r == add_user_similarity(db, a, b, t, s, 1, TotalOf_(a), TotalOf_(b))
            lo == IF a < b THEN a ELSE b
            hi == IF a < b THEN b ELSE a
        IN  /\ db' = r.db
            /\ hLast' = IF a # b
                         THEN [hLast EXCEPT !.sims = Put(@, <<lo, hi, t>>, s)]
                         ELSE hLast
    /\ ncalls' = ncalls + 1
    /\ UNCHANGED <<pp, gr, hvVars, pgVars, op>>

AddArtistRelationshipCall ==
    /\ ncalls < MaxPairCalls
    /\ \E a \in PairIds, b \in PairIds, t \in RelationshipTypes, s \in Scores :
        LET r == add_artist_relationship(db, a, b, t, s, 2)
            lo == IF a < b THEN a ELSE b
            hi == IF a < b THEN b ELSE a
        IN  /\ db' = r.db
            /\ hLast' = IF a # b
                         THEN [hLast EXCEPT !.artists = Put(@, <<lo, hi, t>>, s)]
                         ELSE hLast
    /\ ncalls' = ncalls + 1
    /\ UNCHANGED <<pp, gr, hvVars, pgVars, op>>

PairsNext == AddUserSimilarityCall \/ AddArtistRelationshipCall

SpecPairs == CacheInit /\ [][PairsNext]_vars

(***************************************************************************)
(* The multi-row writes, statement by statement, with failures             *)
(***************************************************************************)

\* number of multi-row calls in a run
MaxBatchCalls == 2

PlaylistIds == {7}

RelationLists ==
    {<<<<1, 2, "co_playlist", 500>>, <<2, 1, "co_playlist", 500>>>>,
     <<<<1, 2, "co_playlist", 1000>>>>}

\* a call may start when none is in progress
Idle == op.name = "none" \/ op.end # ""

InProgress == op.name # "none" /\ op.end = ""

BeginTracksBatch ==
    /\ Idle /\ ncalls < MaxBatchCalls
    /\ \E tds \in TrackLists :
        op' = [name |-> "cache_tracks_batch", items |-> tds, i |-> 1,
               stage |-> "tracks", before |-> db.disk, end |-> ""]
    /\ ncalls' = ncalls + 1
    /\ UNCHANGED <<pp, gr, hvVars, pgVars, db, hLast>>

BeginPlaylistTracks ==
    /\ Idle /\ ncalls < MaxBatchCalls
    /\ \E tds \in TrackLists, pl \in PlaylistIds :
        op' = [name |-> "cache_playlist_tracks", items |-> LinkArgs(pl, tds), i |-> 1,
               stage |-> "tracks", before |-> db.disk, end |-> ""]
    /\ ncalls' = ncalls + 1
    /\ UNCHANGED <<pp, gr, hvVars, pgVars, db, hLast>>

BeginRelatedBatch ==
    /\ Idle /\ ncalls < MaxBatchCalls
    /\ \E rels \in RelationLists :
        op' = [name |-> "add_related_tracks_batch", items |-> rels, i |-> 1,
               stage |-> "relations", before |-> db.disk, end |-> ""]
    /\ ncalls' = ncalls + 1
    /\ UNCHANGED <<pp, gr, hvVars, pgVars, db, hLast>>

\* the payload the tracks loop is at
TrackAt(o) ==
    IF o.name = "cache_playlist_tracks" THEN o.items[o.i].track ELSE o.items[o.i]

\* one pass of a loop body; an exception rolls back and ends the call
StepWith(r) ==
    IF r.err = "ok"
    THEN /\ db' = [db EXCEPT !.conn = r.tables]
         /\ op' = [op EXCEPT !.i = @ + 1]
    ELSE /\ db' = Rollback(db)
         /\ op' = [op EXCEPT !.end = "raised"]

TracksStep ==
    /\ InProgress /\ op.stage = "tracks" /\ op.i <= Len(op.items)
    /\ StepWith(BatchTrackItem(Cursor(db), TrackAt(op)))
    /\ UNCHANGED <<pp, gr, hvVars, pgVars, ncalls, hLast>>

\* the commit that ends cache_tracks_batch, also when cache_playlist_tracks
\* called it
TracksCommit ==
    /\ InProgress /\ op.stage = "tracks" /\ op.i > Len(op.items)
    /\ db' = Commit(db)
    /\ op' = IF op.name = "cache_playlist_tracks"
              THEN [op EXCEPT !.stage = "links", !.i = 1]
              ELSE [op EXCEPT !.end = "returned"]
    /\ UNCHANGED <<pp, gr, hvVars, pgVars, ncalls, hLast>>

LinksStep ==
    /\ InProgress /\ op.stage = "links" /\ op.i <= Len(op.items)
    /\ StepWith(LinkItem(Cursor(db), op.items[op.i]))
    /\ UNCHANGED <<pp, gr, hvVars, pgVars, ncalls, hLast>>

RelationsStep ==
    /\ InProgress /\ op.stage = "relations" /\ op.i <= Len(op.items)
    /\ StepWith(RelationItem(Cursor(db), op.items[op.i]))
    /\ UNCHANGED <<pp, gr, hvVars, pgVars, ncalls, hLast>>

\* the commit at the end of the call's own `with self._transaction()` block
FinalCommit ==
    /\ InProgress /\ op.stage \in {"links", "relations"} /\ op.i > Len(op.items)
    /\ db' = Commit(db)
    /\ op' = [op EXCEPT !.end = "returned"]
    /\ UNCHANGED <<pp, gr, hvVars, pgVars, ncalls, hLast>>

\* the next cursor.execute raises (sqlite3.OperationalError: disk full, file
\* locked): _transaction rolls back and re-raises
StatementFails ==
    /\ InProgress /\ op.i <= Len(op.items)
    /\ db' = Rollback(db)
    /\ op' = [op EXCEPT !.end = "raised"]
    /\ UNCHANGED <<pp, gr, hvVars, pgVars, ncalls, hLast>>

\* the process is killed: what was not committed is lost
Interrupt ==
    /\ InProgress
    /\ db' = Rollback(db)
    /\ op' = [op EXCEPT !.end = "interrupted"]
    /\ UNCHANGED <<pp, gr, hvVars, pgVars, ncalls, hLast>>

AtomicNext ==
    \/ BeginTracksBatch \/ BeginPlaylistTracks \/ BeginRelatedBatch
    \/ TracksStep \/ TracksCommit \/ LinksStep \/ RelationsStep \/ FinalCommit
    \/ StatementFails \/ Interrupt

SpecAtomic == CacheInit /\ [][AtomicNext]_vars

\* the rows a call writes when it runs to its end
RowsWritten(o) ==
    /\ o.name = "cache_tracks_batch" =>
            \A i \in 1..Len(o.items) : o.items[i].id # 0 =>
                \E r \in db.disk.tracks : r.track_id = o.items[i].id
    /\ o.name = "cache_playlist_tracks" =>
            \A i \in 1..Len(o.items) : o.items[i].track.id # 0 =>
                /\ \E r \in db.disk.tracks : r.track_id = o.items[i].track.id
                /\ \E r \in db.disk.playlist_tracks :
                        /\ r.playlist_id = o.items[i].playlist_id
                        /\ r.track_id = o.items[i].track.id
    /\ o.name = "add_related_tracks_batch" =>
            \A i \in 1..Len(o.items) :
                \E r \in db.disk.related_tracks :
                    RelatedKey(r) = <<o.items[i][1], o.items[i][2], o.items[i][3]>>

\* C6: each multi-row write (cache_tracks_batch, add_related_tracks_batch,
\* cache_playlist_tracks) is one atomic unit: a call that fails or is
\* interrupted leaves the store as it was before the call, and a call that
\* returns has persisted all of its rows.
C6_AtomicBatches ==
    /\ op.end \in {"raised", "interrupted"} => db.disk = op.before
    /\ op.end = "returned" => RowsWritten(op)

(***************************************************************************)
(* Claims about the cache's upserts                                        *)
(***************************************************************************)

RowsOfTrack(id) == {r \in db.disk.tracks : r.track_id = id}

\* C4: after any sequence of cache_track and cache_tracks_batch calls the
\* tracks table holds exactly one row per track id ever cached, and the
\* row's title, counters and raw payload are those of the latest call for
\* the id, with nothing kept from an earlier payload.
C4_LastWriteWins ==
    /\ db.conn = db.disk
    /\ {r.track_id : r \in db.disk.tracks} = DOMAIN hLast.tracks
    /\ \A id \in DOMAIN hLast.tracks :
        LET td == hLast.tracks[id]
        IN  /\ Cardinality(RowsOfTrack(id)) = 1
            /\ \A r \in RowsOfTrack(id) :
                /\ r.raw_json = td
                /\ r.title = (IF td.title = Missing THEN "Untitled" ELSE td.title)
                /\ r.playback_count = td.playback_count
                /\ r.like_count = td.likes_count
                /\ r.artist_id = td.user.id

\* the same payload cached twice with only a counter changed, then a batch
\* that was rolled back: one row, holding the second counter
C4_Witness ==
    /\ ncalls = 3
    /\ DOMAIN hLast.tracks = {1}
    /\ \E r \in db.disk.tracks : r.track_id = 1 /\ r.playback_count = 7
    /\ Cardinality(db.disk.tracks) = 1

SimRowsOf(a, b, t) ==
    {r \in db.disk.user_similarity :
        {r.user_id_a, r.user_id_b} = {a, b} /\ r.similarity_type = t}

ArtistRowsOf(a, b, t) ==
    {r \in db.disk.artist_relationships :
        {r.artist_id_a, r.artist_id_b} = {a, b} /\ r.relationship_type = t}

\* C5: whatever the order of the arguments, stored user_similarity and
\* artist_relationships rows have the smaller id first; add(b, a, type) and
\* add(a, b, type) address the one row keyed (a, b, type), and the later
\* call overwrites the earlier one.
C5_CanonicalOrdering ==
    /\ \A r \in db.disk.user_similarity : r.user_id_a < r.user_id_b
    /\ \A r \in db.disk.artist_relationships : r.artist_id_a < r.artist_id_b
    /\ {SimKey(r) : r \in db.disk.user_similarity} = DOMAIN hLast.sims
    /\ {ArtistRelKey(r) : r \in db.disk.artist_relationships} = DOMAIN hLast.artists
    /\ \A k \in DOMAIN hLast.sims :
        /\ Cardinality(SimRowsOf(k[1], k[2], k[3])) = 1
        /\ \A r \in SimRowsOf(k[1], k[2], k[3]) :
            /\ r.similarity_score = hLast.sims[k]
            /\ r.total_tracks_a = TotalOf_(r.user_id_a)
            /\ r.total_tracks_b = TotalOf_(r.user_id_b)
    /\ \A k \in DOMAIN hLast.artists :
        /\ Cardinality(ArtistRowsOf(k[1], k[2], k[3])) = 1
        /\ \A r \in ArtistRowsOf(k[1], k[2], k[3]) : r.strength = hLast.artists[k]

\* (2, 1) added after (1, 2) with another score: one row (1, 2), new score
C5_Witness ==
    /\ ncalls = 3
    /\ Cardinality(db.disk.user_similarity) = 1
    /\ Cardinality(db.disk.artist_relationships) = 1
    /\ \E r \in db.disk.user_similarity :
        r.user_id_a = 1 /\ r.user_id_b = 2 /\ r.similarity_score = 750
    /\ \E r \in db.disk.artist_relationships :
        r.artist_id_a = 1 /\ r.artist_id_b = 2

PgInit ==
    /\ pgSrc \in Sources
    /\ pgMax \in Caps
    /\ pg = PgStart
    /\ db = EmptyDb /\ ncalls = 0 /\ hLast = NoHistory /\ op = NoOp
    /\ hvCfg = DefaultConfig /\ hvWorld = NoWorld /\ hv = HvIdle /\ gr = GrIdle /\ pp = PpIdle

PgLoop ==
    /\ pg.pc = "loop"
    /\ pg' = PageStep(FetchPage(pgSrc, pg.offset), pgMax, pg)
    /\ UNCHANGED <<pp, gr, pgSrc, pgMax, cacheVars, hvVars>>

PgReturn ==
    /\ pg.pc = "return"
    /\ pg' = PageReturn(pgMax, pg)
    /\ UNCHANGED <<pp, gr, pgSrc, pgMax, cacheVars, hvVars>>

PgNext == PgLoop \/ PgReturn

SpecPaginate == PgInit /\ [][PgNext]_vars

\* the loop is sequential code: a call that can take a step takes it
SpecPaginateFair == SpecPaginate /\ WF_vars(PgNext)

(***************************************************************************)
(* Claims about _fetch_all_paginated                                       *)
(***************************************************************************)

\* the offsets of the calls of the fetch function, in call order
FetchOffsets(log) ==
    LET calls == SelectSeq(log, LAMBDA e : e[1] \in {"fetch", "raise"})
    IN  [i \in 1..Len(calls) |-> calls[i][2]]

OffsetOfPage(j) == (j - 1) * PageSize

RECURSIVE ConcatPages(_, _)
\* the records of the source's first j pages, in page order
ConcatPages(src, j) ==
    IF j = 0 THEN <<>>
    ELSE ConcatPages(src, j - 1)
            \o RecordsAt(OffsetOfPage(j), OutcomeAt(src, OffsetOfPage(j)))

\* the source returns k full pages and then one short (possibly empty) page
FullThenShort(src, k) ==
    /\ \A j \in 1..k : OutcomeAt(src, OffsetOfPage(j)) = PageSize
    /\ OutcomeAt(src, OffsetOfPage(k + 1)) \in 0..(PageSize - 1)

TotalOf(src, k) == k * PageSize + OutcomeAt(src, OffsetOfPage(k + 1))

PagesFetchedInOrder(k) ==
    /\ pg.ret = ConcatPages(pgSrc, k)
    /\ FetchOffsets(pg.log) = [j \in 1..k |-> OffsetOfPage(j)]

\* C1 as stated: full pages then one short page and a cap of at least the
\* total give the concatenation of all pages after one fetch per page, the
\* short one included, at offsets 0, 50, 100, ...
C1_AsStated ==
    pg.pc = "done" =>
        \A k \in 0..(MaxPages + 1) :
            (FullThenShort(pgSrc, k) /\ pgMax >= TotalOf(pgSrc, k))
                => PagesFetchedInOrder(k + 1)

\* C1 (amended): the same, provided the cap exceeds the total of the full
\* pages; when the short page is empty and the cap equals the total, the
\* loop test ends the call after the last full page and the empty page is
\* never fetched.
C1_FullThenShortPage ==
    pg.pc = "done" =>
        \A k \in 0..(MaxPages + 1) :
            (FullThenShort(pgSrc, k) /\ pgMax >= TotalOf(pgSrc, k))
                => IF pgMax > k * PageSize
                   THEN PagesFetchedInOrder(k + 1)
                   ELSE PagesFetchedInOrder(k)

C1_Witness ==
    /\ pg.pc = "done"
    /\ pgSrc.pages = <<PageSize, PageSize, 30>>
    /\ pgMax = 1000
    /\ Len(pg.ret) = 130
    /\ Len(FetchOffsets(pg.log)) = 3

CeilDiv(a, b) == (a + b - 1) \div b

\* the source returns a full page at each of its first n offsets
FullPages(src, n) == \A j \in 1..n : OutcomeAt(src, OffsetOfPage(j)) = PageSize

C2_Safe ==
    /\ Len(FetchOffsets(pg.log)) <= CeilDiv(pgMax, PageSize)
    /\ pg.pc = "done" =>
        /\ Len(pg.ret) <= pgMax
        /\ FullPages(pgSrc, CeilDiv(pgMax, PageSize)) =>
              /\ pg.ret = [i \in 1..pgMax |-> i]
              /\ Len(FetchOffsets(pg.log)) = CeilDiv(pgMax, PageSize)

\* C2: for every source and every cap the call terminates with at most
\* max_results records; a source of full pages gives exactly the first
\* max_results records after ceil(max_results / 50) fetches.
C2_CapAndTermination == []C2_Safe /\ <>(pg.pc = "done")

C2_Witness ==
    /\ pg.pc = "done"
    /\ pgMax = 120
    /\ FullPages(pgSrc, 3)
    /\ Len(pg.ret) = 120
    /\ Len(FetchOffsets(pg.log)) = 3

(***************************************************************************)
(* Claims about deep_harvest                                               *)
(***************************************************************************)

RECURSIVE FetchedBefore(_, _, _)
\* the records of the pages a paginated call fetched before entry i of its log
FetchedBefore(w, v, i) ==
    IF i <= 1 THEN <<>>
    ELSE FetchedBefore(w, v, i - 1)
            \o (IF v.log[i - 1][1] = "fetch"
                THEN RemoteCall(w, v.call, v.log[i - 1][2]).batch
                ELSE <<>>)

\* a cache call name(a, ...) made by the given phase succeeded
WroteIn(phase, name, a) ==
    \E j \in DOMAIN hv.wlog :
        hv.wlog[j].phase = phase /\ hv.wlog[j].op = name /\ hv.wlog[j].a = a

\* the step that follows the n-th paginated call in its phase: the playlists
\* returned are cached (Phase 2), the artist's own tracks among the results
\* are cached (Phase 3), the next key term is searched (Phase 4)
ContinuedAfter(n) ==
    LET v == hv.pages[n]
        terms == Take(extract_key_terms(GetOr(hv.seed_track.title, "")), 3)
    IN  CASE v.phase = 2 ->
                \A i \in DOMAIN v.ret :
                    v.ret[i].id # 0 => WroteIn(2, "cache_playlist", v.ret[i].id)
          [] v.phase = 3 ->
                \A i \in DOMAIN v.ret :
                    (v.ret[i].id # 0 /\ v.ret[i].user.id = hv.seed_track.user.id)
                        => WroteIn(3, "cache_track", v.ret[i].id)
          [] v.phase = 4 ->
                \A t \in DOMAIN terms :
                    (terms[t] = v.call.q.text /\ t < Len(terms))
                        => /\ n < Len(hv.pages)
                           /\ hv.pages[n + 1].phase = 4
                           /\ hv.pages[n + 1].call.q.text = terms[t + 1]
          [] OTHER -> TRUE

\* C3: when the fetch function raises on page k of a paginated call, the
\* exception does not leave the call, the call makes no further fetch, it
\* returns exactly the records of the pages fetched before k (cut to the
\* cap), and the phase that made the call goes on with its next step.
C3_FetchFailureContained ==
    \A n \in DOMAIN hv.pages :
        \A i \in DOMAIN hv.pages[n].log :
            hv.pages[n].log[i][1] = "raise" =>
                /\ i = Len(hv.pages[n].log)
                /\ hv.pages[n].ret =
                        Take(FetchedBefore(hvWorld, hv.pages[n], i), hv.pages[n].max_results)
                /\ hv.pc # "raised"
                /\ ContinuedAfter(n)

\* a search failed on its second page, the first page came back, and the
\* artist phase cached its tracks and was followed by the later phases
C3_Witness ==
    /\ hv.pc = "returned"
    /\ \E n \in DOMAIN hv.pages :
        /\ hv.pages[n].phase = 3
        /\ hv.pages[n].log = <<<<"fetch", 0>>, <<"sleep", 0>>, <<"raise", PageSize>>>>
        /\ Len(hv.pages[n].ret) = PageSize
        /\ WroteIn(3, "cache_track", hv.pages[n].ret[PageSize].id)
    /\ \E m \in DOMAIN hv.pages : hv.pages[m].phase = 4

\* C7: when the seed track cannot be resolved, deep_harvest runs no phase,
\* issues no request, writes nothing, and the failure reaches the caller as
\* an error (the call raises).
C7_UnresolvableSeedIsAnError ==
    (hv.run > 0 /\ hv.seed_track.id = 0)
        => /\ hv.pc = "raised"
           /\ hv.ran = <<>> /\ hv.pages = <<>> /\ hv.wlog = <<>>

\* record x of a page returned by endpoint ep is in the cache, and so are
\* the entries of a playlist that have an id
CachedFrom(ep, x) ==
    CASE ep \in {"track_favoriters", "track_reposters"} ->
            \E r \in db.conn.users : r.user_id = x.id
      [] ep = "user_likes" ->
            \E r \in db.conn.tracks : r.track_id = x.id
      [] ep = "user_playlists" ->
            /\ \E r \in db.conn.playlists : r.playlist_id = x.id
            /\ \A j \in DOMAIN x.tracks :
                x.tracks[j].id # 0 => \E r \in db.conn.tracks : r.track_id = x.tracks[j].id
      [] OTHER -> TRUE

\* C8: a fetched record without an id (a user, track or playlist of a page,
\* an entry of a playlist, the user embedded in a track) is skipped alone:
\* no exception leaves deep_harvest and every record of the page that has an
\* id is cached.
C8_RecordWithoutIdSkippedAlone ==
    /\ hv.pc # "raised"
    /\ \A n \in DOMAIN hv.pages :
        \A i \in DOMAIN hv.pages[n].ret :
            hv.pages[n].ret[i].id # 0
                => CachedFrom(hv.pages[n].call.ep, hv.pages[n].ret[i])

\* the phases deep_harvest calls for an engine, in order
EnginePhases(eng) ==
    SelectSeq(<<1, 2, 3, 4, 5, 6, 7>>,
              LAMBDA k : /\ (k = 5 => eng.enable_commentary_layer)
                         /\ (k = 6 => eng.enable_label_layer)
                         /\ (k = 7 => eng.enable_contextual_layer))

\* C9: on a resolvable seed the phases run in the order 1..7, none twice,
\* no request of a later phase precedes a request of an earlier one, and
\* when deep_harvest is over every enabled phase has run exactly once.
C9_PhasesInOrder ==
    /\ \A i, j \in DOMAIN hv.ran : i < j => hv.ran[i] < hv.ran[j]
    /\ \A i, j \in DOMAIN hv.pages : i < j => hv.pages[i].phase <= hv.pages[j].phase
    /\ (hv.pc \in {"returned", "raised"} /\ hv.seed_track.id # 0)
            => hv.ran = EnginePhases(EngineOf(hvCfg))

\* the configuration switches phase k off: its section says enabled: false,
\* or, for the three layers, its enable_*_layer key is false
SwitchedOff(config, k) ==
    \/ ~config.enabled[k]
    \/ k = 5 /\ ~config.enable_commentary_layer
    \/ k = 6 /\ ~config.enable_label_layer
    \/ k = 7 /\ ~config.enable_contextual_layer

\* C10: a phase switched off in the configuration is not run, issues no
\* remote request and writes nothing to the cache, whichever of the seven
\* phases it is.
C10_EveryPhaseToggleable ==
    \A k \in 1..7 :
        SwitchedOff(hvCfg, k) =>
            /\ \A i \in DOMAIN hv.ran : hv.ran[i] # k
            /\ \A i \in DOMAIN hv.pages : hv.pages[i].phase # k
            /\ \A i \in DOMAIN hv.wlog : hv.wlog[i].phase # k

\* the keys of the rows of a table are still keys of the table afterwards
KeysKept(before, after) ==
    /\ \A r \in before.tracks : \E x \in after.tracks : TrackKey(x) = TrackKey(r)
    /\ \A r \in before.users : \E x \in after.users : UserKey(x) = UserKey(r)
    /\ \A r \in before.playlists : \E x \in after.playlists : PlaylistKey(x) = PlaylistKey(r)
    /\ \A r \in before.playlist_tracks :
            \E x \in after.playlist_tracks : PlaylistTrackKey(x) = PlaylistTrackKey(r)
    /\ \A r \in before.user_engagements :
            \E x \in after.user_engagements : EngagementKey(x) = EngagementKey(r)

\* a call of deep_harvest after the first one is over
LaterRunOver == hv.run >= 2 /\ hv.pc \in {"returned", "raised"}

MaxIngestCalls == 1

\* users and playlists of the store with many of both
CrowdUsers == 21
CrowdPlaylists == 11

Artist12 == UserPayload(12, "cy")

PostArtist(id) ==
    CASE id \in {1, 4} -> Artist10
      [] id \in {2, 5, 8} -> Artist11
      [] id \in {3, 7} -> Artist12
      [] OTHER -> NoUser

PostTrack(id) == TrackPayload(id, "t", PostArtist(id), 0, 0)

PostTracks(ids) == [i \in 1..Len(ids) |-> PostTrack(ids[i])]

\* one call of the harvest side: cache a track, record an engagement, or
\* cache a playlist and then its tracks
IngestCall(kind, user_id, track_id, playlist_id, ids) ==
    [kind |-> kind, user_id |-> user_id, track_id |-> track_id,
     playlist_id |-> playlist_id, ids |-> ids]

TrackCall(id) == IngestCall("track", 0, id, 0, <<>>)
LikeCall(user_id, track_id) == IngestCall("like", user_id, track_id, 0, <<>>)
RepostCall(user_id, track_id) == IngestCall("repost", user_id, track_id, 0, <<>>)
PlaylistCall(id, ids) == IngestCall("playlist", 0, 0, id, ids)

Ingest(d, c) ==
    CASE c.kind = "track" -> cache_track(d, PostTrack(c.track_id)).db
      [] c.kind \in {"like", "repost"} ->
            add_user_engagement(d, c.user_id, c.track_id, c.kind, 1).db
      [] OTHER ->
            cache_playlist_tracks(
                cache_playlist(d, PlaylistPayload(c.playlist_id, "p", NoUser,
                                                  PostTracks(c.ids))).db,
                c.playlist_id, PostTracks(c.ids)).db

IngestItem(s, c) == [db |-> Ingest(s.db, c), err |-> "ok"]

\* the store after the calls, made one after the other
IngestAll(d, calls) == ForEach(IngestItem, [db |-> d, err |-> "ok"], calls, 1).db

LikesOf(user_id, ids) == [i \in 1..Len(ids) |-> LikeCall(user_id, ids[i])]

\* the two rows SmartExpander writes for a pair of tracks of one playlist
Expanded(d, a, b, weight) ==
    add_related_track(add_related_track(d, a, b, "co_playlist", weight).db,
                      b, a, "co_playlist", weight).db

\* two libraries of four likes that share two, a repost, and one playlist
\* whose pair of tracks the expansion has already related
ExampleStore ==
    Expanded(IngestAll(EmptyDb,
                [i \in 1..7 |-> TrackCall(i)]
                \o LikesOf(1, <<1, 2, 3, 4>>) \o LikesOf(2, <<3, 4, 5, 6>>)
                \o <<RepostCall(2, 1), PlaylistCall(7, <<1, 2>>)>>),
             1, 2, Ratio(1, 2))

\* libraries that share three tracks, a like of a track that is not cached
\* (8), a like of a track without artist (6), and two playlists that share
\* two tracks
DenseStore ==
    IngestAll(EmptyDb,
        [i \in 1..7 |-> TrackCall(i)]
        \o LikesOf(1, <<1, 2, 3>>) \o LikesOf(2, <<1, 2, 3, 4, 8>>)
        \o LikesOf(3, <<1, 6>>)
        \o <<PlaylistCall(7, <<1, 2, 3>>), PlaylistCall(8, <<2, 1>>)>>)

\* many users with the same two likes and many playlists with the same two
\* tracks; the first user also likes a third artist's track, a track without
\* artist and a track that is not cached, the first playlist has a third track
CrowdStore ==
    IngestAll(EmptyDb,
        [i \in 1..(2 * CrowdUsers) |-> LikeCall((i + 1) \div 2, 2 - (i % 2))]
        \o <<TrackCall(6)>> \o LikesOf(1, <<3, 6, 8>>)
        \o <<PlaylistCall(1, <<1, 2, 3>>)>>
        \o [i \in 1..(CrowdPlaylists - 1) |-> PlaylistCall(i + 1, <<1, 2>>)])

LooseThresholds ==
    [min_common_tracks |-> 2, min_similarity_score |-> Ratio(3, 10),
     min_co_occurrence |-> 1, min_artist_strength |-> Ratio(1, 10)]

PostConfigs == {DefaultThresholds, LooseThresholds}

\* a store as a harvest left it, and what a later harvest may add to it
PostWorlds ==
    {[db |-> ExampleStore, later |-> {LikeCall(1, 7)}],
     [db |-> DenseStore, later |-> {TrackCall(8), PlaylistCall(9, <<1, 3>>)}],
     [db |-> CrowdStore, later |-> {}]}

\* the orders in which the query may return the users
UserOrders(d) == {SortedIds(LikingUsers(d)), Reversed(SortedIds(LikingUsers(d)))}

PassNames == {"user_similarities", "track_cooccurrence", "artist_relationships"}

PostInit ==
    /\ \E w \in PostWorlds, config \in PostConfigs :
            /\ db = w.db
            /\ pp = [PpIdle EXCEPT !.cfg = config, !.later = w.later,
                                   !.base = w.db.conn, !.before = w.db.conn]
    /\ ncalls = 0 /\ hLast = NoHistory /\ op = NoOp
    /\ pgSrc = NoSource /\ pgMax = 0 /\ pg = PgStart
    /\ hvCfg = DefaultConfig /\ hvWorld = NoWorld /\ hv = HvIdle /\ gr = GrIdle

\* the processor after a call that ran the passes `names` and returned r;
\* `done` are the passes run since the store last changed from outside
AfterPass(r, name, names) ==
    [pp EXCEPT !.last = name, !.done = @ \cup names, !.again = names \subseteq pp.done,
               !.before = db.conn, !.written = r.written, !.err = r.err]

Post_Ingest ==
    /\ pp.ingested < MaxIngestCalls
    /\ \E c \in pp.later :
            /\ db' = Ingest(db, c)
            /\ pp' = [pp EXCEPT !.last = "ingest", !.ingested = @ + 1,
                                !.done = {}, !.again = FALSE,
                                !.base = db'.conn, !.before = db.conn,
                                !.written = 0, !.err = "ok"]
    /\ UNCHANGED <<pgVars, ncalls, hLast, op, hvVars, gr>>

Post_UserSimilarities ==
    /\ \E user_ids \in UserOrders(db) :
        LET r == compute_user_similarities(db, pp.cfg, user_ids)
        IN  /\ db' = r.db
            /\ pp' = AfterPass(r, "user_similarities", {"user_similarities"})
    /\ UNCHANGED <<pgVars, ncalls, hLast, op, hvVars, gr>>

Post_TrackCooccurrence ==
    /\ LET r == compute_track_cooccurrence(db, pp.cfg)
       IN  /\ db' = r.db
           /\ pp' = AfterPass(r, "track_cooccurrence", {"track_cooccurrence"})
    /\ UNCHANGED <<pgVars, ncalls, hLast, op, hvVars, gr>>

Post_ArtistRelationships ==
    /\ LET r == compute_artist_relationships(db, pp.cfg)
       IN  /\ db' = r.db
           /\ pp' = AfterPass(r, "artist_relationships", {"artist_relationships"})
    /\ UNCHANGED <<pgVars, ncalls, hLast, op, hvVars, gr>>

Post_ProcessAll ==
    /\ \E user_ids \in UserOrders(db) :
        LET r == process_all(db, pp.cfg, user_ids)
        IN  /\ db' = r.db
            /\ pp' = AfterPass([written |-> r.stats[1] + r.stats[2] + r.stats[3],
                                err |-> r.err], "process_all", PassNames)
    /\ UNCHANGED <<pgVars, ncalls, hLast, op, hvVars, gr>>

PostNext ==
    \/ Post_Ingest
    \/ Post_UserSimilarities
    \/ Post_TrackCooccurrence
    \/ Post_ArtistRelationships
    \/ Post_ProcessAll

SpecPost == PostInit /\ [][PostNext]_vars

(***************************************************************************)
(* Claims about the post-ingestion passes                                  *)
(***************************************************************************)

\* L(u): the liked tracks of a user, as the pass sees them (the tracks in
\* the cache the user has a 'like' engagement for)
LikedIds(T, u) ==
    {t.track_id : t \in {x \in T.tracks :
        \E e \in T.user_engagements :
            e.user_id = u /\ e.engagement_type = "like" /\ e.track_id = x.track_id}}

PostUsers(T) ==
    {e.user_id : e \in T.user_engagements}
        \cup {r.user_id_a : r \in T.user_similarity}
        \cup {r.user_id_b : r \in T.user_similarity}

\* the pair clears the three conditions of the claim
SimilarPair(T, cfg, u, v) ==
    /\ Cardinality(LikedIds(T, u)) >= cfg.min_common_tracks
    /\ Cardinality(LikedIds(T, v)) >= cfg.min_common_tracks
    /\ Cardinality(LikedIds(T, u) \cap LikedIds(T, v)) >= cfg.min_common_tracks
    /\ LikedIds(T, u) \cup LikedIds(T, v) # {}
    /\ AtLeast(Ratio(Cardinality(LikedIds(T, u) \cap LikedIds(T, v)),
                     Cardinality(LikedIds(T, u) \cup LikedIds(T, v))),
               cfg.min_similarity_score)

\* the row the claim describes for u < v
JaccardRow(T, u, v) ==
    [user_id_a |-> u, user_id_b |-> v, similarity_type |-> "jaccard_likes",
     similarity_score |-> Ratio(Cardinality(LikedIds(T, u) \cap LikedIds(T, v)),
                                Cardinality(LikedIds(T, u) \cup LikedIds(T, v))),
     common_tracks |-> Cardinality(LikedIds(T, u) \cap LikedIds(T, v)),
     total_tracks_a |-> Cardinality(LikedIds(T, u)),
     total_tracks_b |-> Cardinality(LikedIds(T, v))]

JaccardRows(T, u, v) ==
    {r \in T.user_similarity : SimKey(r) = <<u, v, "jaccard_likes">>}

SimilaritiesRan == pp.last \in {"user_similarities", "process_all"}

\* C12 as stated: after _compute_user_similarities a 'jaccard_likes' row
\* exists for the pair {u, v} exactly if both users have min_common_tracks
\* liked tracks, share min_common_tracks of them and reach the Jaccard
\* threshold; the row is keyed (min, max) and holds the ratio, the number of
\* common tracks and the two library sizes in the order of its key.
C12_AsStated ==
    SimilaritiesRan =>
        \A u \in PostUsers(db.conn) : \A v \in PostUsers(db.conn) :
            u < v =>
                JaccardRows(db.conn, u, v)
                    = IF SimilarPair(db.conn, pp.cfg, u, v)
                      THEN {JaccardRow(db.conn, u, v)} ELSE {}

\* what the pass does hold to: the row of a pair that clears the thresholds
\* is the one of the claim, and the row of any other pair is as it was
C12_WriteOnly ==
    SimilaritiesRan =>
        \A u \in PostUsers(db.conn) : \A v \in PostUsers(db.conn) :
            u < v =>
                JaccardRows(db.conn, u, v)
                    = IF SimilarPair(db.conn, pp.cfg, u, v)
                      THEN {JaccardRow(db.conn, u, v)}
                      ELSE JaccardRows(pp.before, u, v)

\* the tracks the playlists and the relations mention
PostTrackIds(T) ==
    {r.track_id : r \in T.playlist_tracks}
        \cup {r.src_track_id : r \in T.related_tracks}
        \cup {r.dst_track_id : r \in T.related_tracks}

\* c: the number of playlists that contain both tracks
CoPlaylists(T, a, b) ==
    Cardinality({p \in T.playlists :
        /\ \E r \in T.playlist_tracks :
                r.playlist_id = p.playlist_id /\ r.track_id = a
        /\ \E r \in T.playlist_tracks :
                r.playlist_id = p.playlist_id /\ r.track_id = b})

CoPlaylistRows(T, a, b) ==
    {r \in T.related_tracks : RelatedKey(r) = <<a, b, "co_playlist">>}

CooccurrenceRan == pp.last \in {"track_cooccurrence", "process_all"}

\* C13: after _compute_track_cooccurrence every ordered pair (a, b) of
\* distinct tracks that share c >= min_co_occurrence playlists has the row
\* (a, b, 'co_playlist') with weight min(1, c / 10); for a pair with
\* c < min_co_occurrence the pass wrote nothing (its row is as it was).
C13_CooccurrenceRows ==
    CooccurrenceRan =>
        \A a \in PostTrackIds(db.conn) : \A b \in PostTrackIds(db.conn) :
            a # b =>
                CoPlaylistRows(db.conn, a, b)
                    = IF CoPlaylists(db.conn, a, b) >= pp.cfg.min_co_occurrence
                      THEN {[src_track_id |-> a, dst_track_id |-> b,
                             relation_type |-> "co_playlist",
                             weight |-> IF CoPlaylists(db.conn, a, b) >= 10
                                        THEN Ratio(1, 1)
                                        ELSE Ratio(CoPlaylists(db.conn, a, b), 10)]}
                      ELSE CoPlaylistRows(pp.before, a, b)

\* the pass has run on a store where one pair shares more than ten
\* playlists and another pair fewer than the threshold
C13_Witness ==
    /\ pp.last = "track_cooccurrence"
    /\ pp.written > 0
    /\ \E a \in PostTrackIds(db.conn) : \E b \in PostTrackIds(db.conn) :
            /\ a # b /\ CoPlaylists(db.conn, a, b) > 10
            /\ \E r \in CoPlaylistRows(db.conn, a, b) : r.weight = Ratio(1, 1)
    /\ \E a \in PostTrackIds(db.conn) : \E b \in PostTrackIds(db.conn) :
            /\ a # b /\ CoPlaylists(db.conn, a, b) > 0
            /\ CoPlaylists(db.conn, a, b) < pp.cfg.min_co_occurrence
            /\ CoPlaylistRows(db.conn, a, b) = {}

\* the artists of the cached tracks a user likes
Library(T, u) ==
    {t.artist_id : t \in {x \in T.tracks :
        /\ x.artist_id # 0
        /\ \E e \in T.user_engagements :
                e.user_id = u /\ e.engagement_type = "like" /\ e.track_id = x.track_id}}

PostArtists(T) ==
    {t.artist_id : t \in T.tracks}
        \cup {r.artist_id_a : r \in T.artist_relationships}
        \cup {r.artist_id_b : r \in T.artist_relationships}

\* c: the number of users whose library holds both artists
CoLibraries(T, a, b) ==
    Cardinality({u \in {e.user_id : e \in T.user_engagements} :
                    a \in Library(T, u) /\ b \in Library(T, u)})

CoLibraryRows(T, a, b) ==
    {r \in T.artist_relationships : ArtistRelKey(r) = <<a, b, "co_library">>}

\* c >= 2 and min(1, c / 20) >= min_artist_strength
StrongPair(T, cfg, a, b) ==
    /\ CoLibraries(T, a, b) >= 2
    /\ AtLeast(IF CoLibraries(T, a, b) >= 20 THEN Ratio(1, 1)
               ELSE Ratio(CoLibraries(T, a, b), 20), cfg.min_artist_strength)

\* a like of a track that is not cached, or of a cached track without artist
SkippedLike(T) ==
    /\ \E e \in T.user_engagements :
            e.engagement_type = "like" /\ \A t \in T.tracks : t.track_id # e.track_id
    /\ \E e \in T.user_engagements : \E t \in T.tracks :
            e.engagement_type = "like" /\ t.track_id = e.track_id /\ t.artist_id = 0

\* C14: _compute_artist_relationships writes the row (min, max,
\* 'co_library') of a pair of artists exactly if c >= 2 users like cached
\* tracks of both and min(1, c / 20) >= min_artist_strength, with that
\* strength and evidence_count c; any other pair's row is as it was; likes
\* of tracks that are not cached or carry no artist_id raise nothing.
C14_ArtistRows ==
    /\ pp.last = "artist_relationships" =>
            pp.written = 2 * Cardinality({k \in PostArtists(db.conn) \X PostArtists(db.conn) :
                                k[1] < k[2] /\ StrongPair(db.conn, pp.cfg, k[1], k[2])})
    /\ pp.last \in {"artist_relationships", "process_all"} =>
        /\ pp.err = "ok"
        /\ \A a \in PostArtists(db.conn) : \A b \in PostArtists(db.conn) :
            a < b =>
                CoLibraryRows(db.conn, a, b)
                    = IF StrongPair(db.conn, pp.cfg, a, b)
                      THEN {[artist_id_a |-> a, artist_id_b |-> b,
                             relationship_type |-> "co_library",
                             strength |-> IF CoLibraries(db.conn, a, b) >= 20
                                          THEN Ratio(1, 1)
                                          ELSE Ratio(CoLibraries(db.conn, a, b), 20),
                             evidence_count |-> CoLibraries(db.conn, a, b)]}
                      ELSE CoLibraryRows(pp.before, a, b)

\* the pass has run over likes it must skip, has written a pair that more
\* than twenty users share at strength 1 and has left a pair of one user out
C14_Witness ==
    /\ pp.last = "artist_relationships"
    /\ SkippedLike(db.conn)
    /\ \E r \in db.conn.artist_relationships :
            r.evidence_count > 20 /\ r.strength = Ratio(1, 1)
    /\ \E a \in PostArtists(db.conn) : \E b \in PostArtists(db.conn) :
            a < b /\ CoLibraries(db.conn, a, b) = 1 /\ CoLibraryRows(db.conn, a, b) = {}

\* the passes `names` in the order of process_all on the tables T
RunPasses(T, cfg, names) ==
    LET d0 == [conn |-> T, disk |-> T]
        d1 == IF "user_similarities" \in names
              THEN compute_user_similarities(d0, cfg, SortedIds(LikingUsers(d0))).db
              ELSE d0
        d2 == IF "track_cooccurrence" \in names
              THEN compute_track_cooccurrence(d1, cfg).db ELSE d1
    IN  IF "artist_relationships" \in names
        THEN compute_artist_relationships(d2, cfg).db ELSE d2

\* C15: a pass run again with no other change of the cache leaves the rows
\* of the first run, and the passes run so far, in whatever order and
\* however often, leave the store that process_all's order leaves.
C15_IdempotentAndIndependent ==
    /\ pp.again => db.conn = pp.before
    /\ pp.done # {} => db.conn = RunPasses(pp.base, pp.cfg, pp.done).conn

\* the three passes have run, the similarities last and for the second
\* time, and each of them has written rows
C15_Witness ==
    /\ pp.done = PassNames /\ pp.last = "user_similarities" /\ pp.again
    /\ pp.written > 0
    /\ db.conn.related_tracks # {} /\ db.conn.artist_relationships # {}

(***************************************************************************)
(* Graph runs: a PersonalGraph is built from a cache, asked for            *)
(* recommendations, exported and loaded again                              *)
(***************************************************************************)

MaxDepth == 2
DefaultBatchSize == 50

\* one related_tracks row to write
RelCall(src, dst, relation_type, num, den) ==
    [src |-> src, dst |-> dst, relation_type |-> relation_type,
     weight |-> Ratio(num, den)]

RelItem(s, c) == add_related_track(s.db, c.src, c.dst, c.relation_type, c.weight)

CachedUserItem(s, user_data) == cache_user(s.db, user_data)

\* Seven cached tracks and their artists.  Track 1 is related to 2 and 3
\* (to 2 twice, under two relation types) and to track 6, which is not
\* cached; 2 and 3 both lead to 4 with weights 0.5 and 0.3; 2 also leads to
\* 7 and 3 to 8; 4 leads to 5 and 5 back to 1.  Users 21 and 10 engaged
\* with tracks of the graph, 21 is similar to 22 (0.5) and to 23 (0.1), and
\* artist 10 is related to 11 (0.5) and to 12 (0.2).
GraphStore ==
    LET tracks == IngestAll(EmptyDb,
                    <<TrackCall(1), TrackCall(2), TrackCall(3), TrackCall(4),
                      TrackCall(5), TrackCall(7), TrackCall(8)>>)
        users == ForEach(CachedUserItem, [db |-> tracks, err |-> "ok"],
                    <<UserPayload(21, "fan"), UserPayload(22, "friend"),
                      UserPayload(23, "stranger")>>, 1).db
        likes == IngestAll(users,
                    <<LikeCall(21, 1), RepostCall(21, 1), LikeCall(21, 4),
                      LikeCall(10, 2), LikeCall(24, 1), LikeCall(22, 2)>>)
        related == ForEach(RelItem, [db |-> likes, err |-> "ok"],
                    <<RelCall(1, 2, "related", 9, 10), RelCall(1, 2, "co_playlist", 1, 5),
                      RelCall(1, 3, "related", 7, 10), RelCall(1, 6, "related", 1, 1),
                      RelCall(2, 4, "related", 1, 2), RelCall(3, 4, "related", 3, 10),
                      RelCall(2, 7, "related", 3, 5), RelCall(3, 8, "related", 2, 5),
                      RelCall(4, 5, "related", 4, 5), RelCall(5, 1, "related", 1, 2)>>,
                    1).db
        similar == add_user_similarity(
                        add_user_similarity(related, 21, 22, "jaccard_likes",
                                            Ratio(1, 2), 3, 4, 5).db,
                        23, 21, "jaccard_likes", Ratio(1, 10), 1, 5, 6).db
    IN  add_artist_relationship(
            add_artist_relationship(similar, 10, 11, "co_library", Ratio(1, 2), 10).db,
            12, 10, "co_library", Ratio(1, 5), 4).db

\* the arguments a build is called with
GraphSeeds == {1, 4, 9}
GraphLayers == {{1}, {1, 2}, {1, 2, 3, 4}, {2, 4}}

RECURSIVE Orders(_)
\* the orders in which the members of a set can be met
Orders(S) ==
    IF S = {} THEN {<<>>}
    ELSE UNION {{<<x>> \o rest : rest \in Orders(S \ {x})} : x \in S}

GraphInit ==
    /\ db = GraphStore
    /\ \E multi \in BOOLEAN :
            gr = [GrIdle EXCEPT !.p = NewGraph(multi), !.fresh = NewGraph(multi)]
    /\ ncalls = 0 /\ hLast = NoHistory /\ op = NoOp
    /\ pgSrc = NoSource /\ pgMax = 0 /\ pg = PgStart
    /\ hvCfg = DefaultConfig /\ hvWorld = NoWorld /\ hv = HvIdle /\ pp = PpIdle

\* graph.build_from_seed(seed, max_depth, layers, batch_size) on a new
\* PersonalGraph
Graph_Build ==
    /\ ~gr.built
    /\ \E seed \in GraphSeeds, max_depth \in 0..MaxDepth, layers \in GraphLayers,
          batch_size \in {1, DefaultBatchSize} :
            gr' = [gr EXCEPT !.p = build_from_seed(gr.p, db, seed, max_depth, layers,
                                                   batch_size),
                             !.built = TRUE, !.seed = seed, !.max_depth = max_depth,
                             !.layers = layers, !.batch_size = batch_size]
    /\ UNCHANGED <<pgVars, cacheVars, hvVars, pp>>

\* graph.get_recommendations(track_id, limit, min_common_neighbors)
Graph_Recommend ==
    /\ gr.built
    /\ \E track_id \in GraphSeeds, limit \in {0, 1, 10}, min_common_neighbors \in 1..3 :
       \E order \in Orders(IF TrackNode(track_id) \in DOMAIN gr.p.graph.nodes
                           THEN DOMAIN Candidates(gr.p.graph, track_id) ELSE {}) :
            gr' = [gr EXCEPT !.asked = TRUE, !.track_id = track_id, !.limit = limit,
                             !.min_common_neighbors = min_common_neighbors,
                             !.recs = get_recommendations(gr.p.graph, track_id, limit,
                                                          min_common_neighbors, order)]
    /\ UNCHANGED <<pgVars, cacheVars, hvVars, pp>>

\* graph.export_to_json(path)
Graph_Export ==
    /\ gr.built /\ ~gr.exported
    /\ gr' = [gr EXCEPT !.exported = TRUE, !.data = export_to_json(gr.p)]
    /\ UNCHANGED <<pgVars, cacheVars, hvVars, pp>>

\* PersonalGraph(cache).load_from_json(path)
Graph_Load ==
    /\ gr.exported /\ ~gr.loaded
    /\ gr' = [gr EXCEPT !.loaded = TRUE,
                        !.fresh = load_from_json(NewGraph(gr.p.enable_multi_layer),
                                                 gr.data)]
    /\ UNCHANGED <<pgVars, cacheVars, hvVars, pp>>

GraphNext ==
    \/ Graph_Build
    \/ Graph_Recommend
    \/ Graph_Export
    \/ Graph_Load

SpecGraph == GraphInit /\ [][GraphNext]_vars

(***************************************************************************)
(* Claims about the graph                                                  *)
(***************************************************************************)

\* the track nodes of a graph
TrackNodesOf(g) == {n \in DOMAIN g.nodes : n.kind = "track"}

RECURSIVE WithinTrackHops(_, _, _)
\* the tracks reached from the seed by at most k track-to-track edges
WithinTrackHops(g, seed, k) ==
    IF k = 0 THEN {TrackNode(seed)} \cap DOMAIN g.nodes
    ELSE LET near == WithinTrackHops(g, seed, k - 1)
         IN  near \cup {e.v : e \in {x \in g.edges :
                                        x.u \in near /\ x.v.kind = "track"}}

RECURSIVE WithinHops(_, _, _)
\* the nodes within k edges of the seed, an edge counting in both directions
WithinHops(g, seed, k) ==
    IF k = 0 THEN {TrackNode(seed)} \cap DOMAIN g.nodes
    ELSE LET near == WithinHops(g, seed, k - 1)
         IN  near \cup {e.v : e \in {x \in g.edges : x.u \in near}}
                  \cup {e.u : e \in {x \in g.edges : x.v \in near}}

\* C16 as stated: no node of the built graph is more than max_depth hops
\* from the seed, so with max_depth = 1 only the seed and its direct
\* neighbours appear.
C16_AsStated ==
    gr.built => DOMAIN gr.p.graph.nodes \subseteq
                    WithinHops(gr.p.graph, gr.seed, gr.max_depth)

\* C16: every track node of the built graph is reached from the seed by at
\* most max_depth track-to-track edges, and no edge leaves a track that is
\* max_depth edges from the seed; the user and artist nodes that the other
\* layers add are outside this bound.
C16_TrackDepthBound ==
    gr.built =>
        /\ TrackNodesOf(gr.p.graph) \subseteq
                WithinTrackHops(gr.p.graph, gr.seed, gr.max_depth)
        /\ \A e \in gr.p.graph.edges :
                e.u.kind = "track" =>
                    /\ gr.max_depth > 0
                    /\ e.u \in WithinTrackHops(gr.p.graph, gr.seed, gr.max_depth - 1)
        /\ 1 \in gr.layers /\ gr.max_depth = 1 =>
                TrackNodesOf(gr.p.graph) =
                    ({TrackNode(gr.seed)} \cap DOMAIN gr.p.graph.nodes)
                        \cup Neighbors(gr.p.graph, TrackNode(gr.seed))

\* a graph built to depth 1 from track 1 holds the seed and its two
\* neighbours, though the cache relates one of them to a further track
C16_Witness ==
    /\ gr.built /\ gr.seed = 1 /\ gr.max_depth = 1 /\ 1 \in gr.layers
    /\ TrackNodesOf(gr.p.graph) = {TrackNode(1), TrackNode(2), TrackNode(3)}
    /\ \E r \in db.conn.related_tracks : r.src_track_id = 2 /\ r.dst_track_id = 4
    /\ \E t \in db.conn.tracks : t.track_id = 4
RECURSIVE SumOfWeights(_)
\* the sum of the weight attributes of a set of edges
SumOfWeights(E) ==
    IF E = {} THEN Ratio(0, 1)
    ELSE LET e == CHOOSE x \in E : TRUE
         IN  RatioSum(e.attrs.weight, SumOfWeights(E \ {e}))

\* the edges of g from the direct neighbours of the seed to the candidate
ConnectingEdges(g, track_id, candidate) ==
    {e \in g.edges : e.u \in Neighbors(g, TrackNode(track_id)) /\ e.v = candidate}

\* C17 as stated: every recommendation carries the number of distinct
\* direct neighbours of the seed that lead to it and, as its score, the sum
\* of the weights of the edges from those neighbours to it multiplied by
\* that number; with edges of weight 0.5 and 0.3 from the two neighbours the
\* score is 1.6.
C17_AsStated ==
    gr.asked =>
        \A i \in 1..Len(gr.recs) :
            LET E == ConnectingEdges(gr.p.graph, gr.track_id, TrackNode(gr.recs[i].track_id))
            IN  /\ gr.recs[i].common_neighbors = Cardinality({e.u : e \in E})
                /\ gr.recs[i].score =
                        RatioTimes(SumOfWeights(E), Cardinality({e.u : e \in E}))

\* the direct neighbours of the seed that lead to the candidate
ConnectingNeighbours(g, track_id, candidate) ==
    {n \in Neighbors(g, TrackNode(track_id)) : candidate \in Neighbors(g, n)}

\* C18: an answer of get_recommendations never holds the seed or a direct
\* neighbour of the seed, holds only candidates that at least
\* min_common_neighbors distinct direct neighbours lead to, each once, is
\* in descending order of score, has at most `limit` entries, and is empty
\* when the seed is not a node of the graph.
C18_RecommendationsFiltered ==
    gr.asked =>
        LET g == gr.p.graph
            seed == TrackNode(gr.track_id)
        IN  /\ seed \notin DOMAIN g.nodes => gr.recs = <<>>
            /\ Len(gr.recs) <= gr.limit
            /\ \A i \in 1..Len(gr.recs) :
                    LET c == TrackNode(gr.recs[i].track_id)
                    IN  /\ c # seed /\ c \notin Neighbors(g, seed)
                        /\ Cardinality(ConnectingNeighbours(g, gr.track_id, c))
                                >= gr.min_common_neighbors
                        /\ gr.recs[i].common_neighbors
                                = Cardinality(ConnectingNeighbours(g, gr.track_id, c))
            /\ \A i, j \in 1..Len(gr.recs) :
                    i < j => /\ AtLeast(gr.recs[i].score, gr.recs[j].score)
                             /\ gr.recs[i].track_id # gr.recs[j].track_id

\* three candidates of track 1 are returned, the one two neighbours lead to
\* first, and the seed has direct neighbours that are left out
C18_Witness ==
    /\ gr.asked /\ gr.track_id = 1 /\ gr.min_common_neighbors = 1 /\ gr.limit = 10
    /\ Len(gr.recs) = 3 /\ gr.recs[1].track_id = 4
    /\ ~AtLeast(gr.recs[3].score, gr.recs[1].score)
    /\ Neighbors(gr.p.graph, TrackNode(1)) = {TrackNode(2), TrackNode(3)}

\* C19: the graph loaded from an export has the nodes of the exported graph
\* with the same attributes and its edges, parallel ones included, with the
\* same attributes.
C19_RoundTrip ==
    gr.loaded =>
        /\ DOMAIN gr.fresh.graph.nodes = DOMAIN gr.p.graph.nodes
        /\ \A n \in DOMAIN gr.p.graph.nodes : gr.fresh.graph.nodes[n] = gr.p.graph.nodes[n]
        /\ gr.fresh.graph.edges = gr.p.graph.edges

\* a graph with track, user and artist nodes and two edges from track 1 to
\* track 2 has been exported and loaded
C19_Witness ==
    /\ gr.loaded
    /\ \E e \in gr.p.graph.edges : e.u = TrackNode(1) /\ e.v = TrackNode(2) /\ e.key = 1
    /\ \E n \in DOMAIN gr.fresh.graph.nodes : n.kind = "user"
    /\ \E n \in DOMAIN gr.fresh.graph.nodes : n.kind = "artist"
    /\ \E e \in gr.fresh.graph.edges : e.attrs.layer = 3

(***************************************************************************)
(* Relationship writes: the six operations that record a relationship      *)
(***************************************************************************)

\* number of relationship-recording calls in a run
MaxRelationCalls == 3

\* the two orders of the ids 1 and 2
Directions == {<<1, 2>>, <<2, 1>>}

\* hLast.rels after a write of `row` under the key (table, a, b, t)
Recorded(h, table, a, b, t, row) == [h EXCEPT !.rels = Put(@, <<table, a, b, t>>, row)]

\* the rows hLast.rels holds for a table
LatestRows(table) ==
    {hLast.rels[k] : k \in {x \in DOMAIN hLast.rels : x[1] = table}}

\* a cache in use: user 1 likes track 1 and follows user 2
RelationsStart ==
    add_user_follow(add_user_engagement(EmptyDb, 1, 1, "like", 1).db, 1, 2, Null).db

RelationsInit ==
    /\ db = RelationsStart
    /\ hLast = Recorded(Recorded(NoHistory, "user_engagements", 1, 1, "like",
                                 [user_id |-> 1, track_id |-> 1,
                                  engagement_type |-> "like", engagement_count |-> 1]),
                        "user_follows", 1, 2, "",
                        [follower_id |-> 1, followee_id |-> 2, followed_at |-> Null])
    /\ ncalls = 0 /\ op = NoOp
    /\ pgSrc = NoSource /\ pgMax = 0 /\ pg = PgStart
    /\ hvCfg = DefaultConfig /\ hvWorld = NoWorld /\ hv = HvIdle /\ gr = GrIdle /\ pp = PpIdle

Rel_AddRelatedTrack ==
    /\ ncalls < MaxRelationCalls
    /\ \E p \in Directions, t \in {"related", "co_playlist"}, w \in Scores :
            /\ db' = add_related_track(db, p[1], p[2], t, w).db
            /\ hLast' = Recorded(hLast, "related_tracks", p[1], p[2], t,
                                 [src_track_id |-> p[1], dst_track_id |-> p[2],
                                  relation_type |-> t, weight |-> w])
    /\ ncalls' = ncalls + 1
    /\ UNCHANGED <<pp, gr, hvVars, pgVars, op>>

Rel_AddUserEngagement ==
    /\ ncalls < MaxRelationCalls
    /\ \E p \in {<<1, 1>>, <<1, 2>>, <<2, 1>>}, t \in {"like", "repost"}, n \in 1..2 :
            /\ db' = add_user_engagement(db, p[1], p[2], t, n).db
            /\ hLast' = Recorded(hLast, "user_engagements", p[1], p[2], t,
                                 [user_id |-> p[1], track_id |-> p[2],
                                  engagement_type |-> t, engagement_count |-> n])
    /\ ncalls' = ncalls + 1
    /\ UNCHANGED <<pp, gr, hvVars, pgVars, op>>

Rel_AddUserFollow ==
    /\ ncalls < MaxRelationCalls
    /\ \E p \in Directions, at \in {Null, "2024-01-01"} :
            /\ db' = add_user_follow(db, p[1], p[2], at).db
            /\ hLast' = Recorded(hLast, "user_follows", p[1], p[2], "",
                                 [follower_id |-> p[1], followee_id |-> p[2],
                                  followed_at |-> at])
    /\ ncalls' = ncalls + 1
    /\ UNCHANGED <<pp, gr, hvVars, pgVars, op>>

\* the pair is stored under (smaller id, larger id) with the totals
\* following their users; a pair of equal ids is refused
Rel_AddUserSimilarity ==
    /\ ncalls < MaxRelationCalls
    /\ \E p \in Directions \cup {<<1, 1>>}, s \in Scores :
        LET r == add_user_similarity(db, p[1], p[2], "jaccard_likes", s, 1,
                                     TotalOf_(p[1]), TotalOf_(p[2]))
        IN  /\ db' = r.db
            /\ hLast' = IF p[1] = p[2] THEN hLast
                         ELSE Recorded(hLast, "user_similarity", 1, 2, "jaccard_likes",
                                       [user_id_a |-> 1, user_id_b |-> 2,
                                        similarity_type |-> "jaccard_likes",
                                        similarity_score |-> s, common_tracks |-> 1,
                                        total_tracks_a |-> TotalOf_(1),
                                        total_tracks_b |-> TotalOf_(2)])
    /\ ncalls' = ncalls + 1
    /\ UNCHANGED <<pp, gr, hvVars, pgVars, op>>

Rel_AddArtistRelationship ==
    /\ ncalls < MaxRelationCalls
    /\ \E p \in Directions \cup {<<1, 1>>}, s \in Scores :
        LET r == add_artist_relationship(db, p[1], p[2], "co_library", s, 2)
        IN  /\ db' = r.db
            /\ hLast' = IF p[1] = p[2] THEN hLast
                         ELSE Recorded(hLast, "artist_relationships", 1, 2, "co_library",
                                       [artist_id_a |-> 1, artist_id_b |-> 2,
                                        relationship_type |-> "co_library",
                                        strength |-> s, evidence_count |-> 2])
    /\ ncalls' = ncalls + 1
    /\ UNCHANGED <<pp, gr, hvVars, pgVars, op>>

RECURSIVE RecordedLinks(_, _, _, _)
\* hLast.rels after the links of a playlist to ids[i..] have been written
RecordedLinks(h, playlist_id, ids, i) ==
    IF i > Len(ids) THEN h
    ELSE RecordedLinks(Recorded(h, "playlist_tracks", playlist_id, ids[i], "",
                                [playlist_id |-> playlist_id, track_id |-> ids[i],
                                 position |-> i - 1]),
                       playlist_id, ids, i + 1)

\* playlist membership is written by cache_playlist_tracks
Rel_CachePlaylistTracks ==
    /\ ncalls < MaxRelationCalls
    /\ \E playlist_id \in 1..2, ids \in {<<1, 2>>, <<2, 1>>, <<2>>} :
            /\ db' = cache_playlist_tracks(db, playlist_id, PostTracks(ids)).db
            /\ hLast' = RecordedLinks(hLast, playlist_id, ids, 1)
    /\ ncalls' = ncalls + 1
    /\ UNCHANGED <<pp, gr, hvVars, pgVars, op>>

RelationsNext ==
    \/ Rel_AddRelatedTrack
    \/ Rel_AddUserEngagement
    \/ Rel_AddUserFollow
    \/ Rel_AddUserSimilarity
    \/ Rel_AddArtistRelationship
    \/ Rel_CachePlaylistTracks

SpecRelations == RelationsInit /\ [][RelationsNext]_vars

\* a key is held by one row of the table
OneRowPerKey(table, Key(_)) == \A r, q \in table : Key(r) = Key(q) => r = q

\* C20: after any calls of the six relationship-recording operations each
\* relation table holds, for every composite key written so far, exactly one
\* row, the one with the values of the latest call on that key, and no
\* other row; so a like and a repost of one user on one track are two rows,
\* and so are the follows (x, y) and (y, x).
C20_UpsertPerKey ==
    /\ db.conn.related_tracks = LatestRows("related_tracks")
    /\ db.conn.user_engagements = LatestRows("user_engagements")
    /\ db.conn.user_follows = LatestRows("user_follows")
    /\ db.conn.user_similarity = LatestRows("user_similarity")
    /\ db.conn.artist_relationships = LatestRows("artist_relationships")
    /\ db.conn.playlist_tracks = LatestRows("playlist_tracks")
    /\ OneRowPerKey(db.conn.related_tracks, RelatedKey)
    /\ OneRowPerKey(db.conn.user_engagements, EngagementKey)
    /\ OneRowPerKey(db.conn.user_follows, FollowKey)
    /\ OneRowPerKey(db.conn.user_similarity, SimKey)
    /\ OneRowPerKey(db.conn.artist_relationships, ArtistRelKey)
    /\ OneRowPerKey(db.conn.playlist_tracks, PlaylistTrackKey)

\* user 1 has liked and reposted track 1, the follow (1, 2) has been
\* written again with a date and (2, 1) has been written too
C20_Witness ==
    /\ ncalls = 3
    /\ {r.engagement_type : r \in db.conn.user_engagements} = {"like", "repost"}
    /\ Cardinality(db.conn.user_engagements) = 2
    /\ \E r \in db.conn.user_follows :
            r.follower_id = 1 /\ r.followee_id = 2 /\ r.followed_at = "2024-01-01"
    /\ \E r \in db.conn.user_follows : r.follower_id = 2 /\ r.followee_id = 1
    /\ Cardinality(db.conn.user_follows) = 2

(***************************************************************************)
(* Entity writes: cache_track, cache_user and cache_playlist on payloads   *)
(* with and without an id and with optional fields missing or null         *)
(***************************************************************************)

\* number of entity-caching calls in a run
MaxEntityCalls == 2

\* a key that is absent, a key that is None, and a key with a value
OptionalTexts == {Missing, Null, "A"}

EntityUsers ==
    {[present |-> TRUE, id |-> id, username |-> name, followers_count |-> 0] :
        id \in 0..2, name \in OptionalTexts}

EntityTracks ==
    {TrackPayload(id, title, user, 0, 0) :
        id \in 0..2, title \in OptionalTexts,
        user \in {NoUser, Artist10, Artist11, UserPayload(12, Null), UserPayload(0, "A")}}

EntityPlaylists ==
    {PlaylistPayload(id, title, user, <<>>) :
        id \in 0..1, title \in OptionalTexts, user \in {NoUser, Artist10}}

\* the record of a call: its payload, the store before it and how it ended
EntityOp(name, payload, r) ==
    [NoOp EXCEPT !.name = name, !.items = <<payload>>, !.before = db.conn,
                 !.end = r.err]

Ent_CacheTrack ==
    /\ ncalls < MaxEntityCalls
    /\ \E td \in EntityTracks :
        LET r == cache_track(db, td)
        IN  db' = r.db /\ op' = EntityOp("cache_track", td, r)
    /\ ncalls' = ncalls + 1
    /\ UNCHANGED <<pp, gr, hvVars, pgVars, hLast>>

Ent_CacheUser ==
    /\ ncalls < MaxEntityCalls
    /\ \E ud \in EntityUsers :
        LET r == cache_user(db, ud)
        IN  db' = r.db /\ op' = EntityOp("cache_user", ud, r)
    /\ ncalls' = ncalls + 1
    /\ UNCHANGED <<pp, gr, hvVars, pgVars, hLast>>

Ent_CachePlaylist ==
    /\ ncalls < MaxEntityCalls
    /\ \E pd \in EntityPlaylists :
        LET r == cache_playlist(db, pd)
        IN  db' = r.db /\ op' = EntityOp("cache_playlist", pd, r)
    /\ ncalls' = ncalls + 1
    /\ UNCHANGED <<pp, gr, hvVars, pgVars, hLast>>

EntitiesNext == Ent_CacheTrack \/ Ent_CacheUser \/ Ent_CachePlaylist

SpecEntities == CacheInit /\ [][EntitiesNext]_vars

\* the payload of the call just made
EntityPayload == op.items[1]

EntityCalled == op.name \in {"cache_track", "cache_user", "cache_playlist"}

\* C21: a call of cache_track, cache_user or cache_playlist with a payload
\* without an id ends in the ValueError of the id test, not in an error of
\* the database, and leaves the connection's view and the committed store as
\* they were before the call.
C21_NoIdFailsFast ==
    EntityCalled /\ EntityPayload.id = 0 =>
        /\ op.end = "ValueError"
        /\ db.conn = op.before
        /\ db.disk = op.before

\* a playlist without id and with a null title has been refused on a store
\* that holds a row
C21_Witness ==
    /\ op.name = "cache_playlist" /\ EntityPayload.id = 0 /\ EntityPayload.title = Null
    /\ op.end = "ValueError"
    /\ db.conn.tracks # {}

\* the row the call leaves for the id of its payload
StoredFor(name, id) ==
    CASE name = "cache_track" -> {r \in db.disk.tracks : r.track_id = id}
      [] name = "cache_user" -> {r \in db.disk.users : r.user_id = id}
      [] OTHER -> {r \in db.disk.playlists : r.playlist_id = id}

\* C22 as stated: a call of cache_track, cache_user or cache_playlist with
\* a payload that has an id does not raise, whichever optional fields are
\* missing or null, and leaves one row for the id.
C22_AsStated ==
    EntityCalled /\ EntityPayload.id # 0 =>
        /\ op.end = "ok"
        /\ Cardinality(StoredFor(op.name, EntityPayload.id)) = 1

(***************************************************************************)
(* Queries: get_related_tracks, get_similar_users, get_related_artists     *)
(***************************************************************************)

\* the graph store with rows of a second type in the two pair tables, a
\* pair in which user 21 has the larger id, and a similar user who is not
\* cached
QueryStore ==
    LET a == add_user_similarity(GraphStore, 21, 22, "co_follow", Ratio(3, 4), 0, 4, 5).db
        b == add_user_similarity(a, 21, 20, "jaccard_likes", Ratio(1, 4), 2, 4, 9).db
        c == cache_user(b, UserPayload(20, "early")).db
        e == add_user_similarity(c, 21, 24, "jaccard_likes", Ratio(1, 1), 4, 4, 4).db
    IN  add_artist_relationship(
            add_artist_relationship(e, 11, 10, "collaboration", Ratio(1, 10), 1).db,
            10, 5, "co_library", Ratio(9, 10), 18).db

QueryLimits == {0, 1, 2, 50}
QueryFloors == {Ratio(0, 1), Ratio(1, 5), Ratio(1, 2)}

QueriesInit ==
    /\ db = QueryStore
    /\ ncalls = 0 /\ hLast = NoHistory /\ op = NoOp
    /\ pgSrc = NoSource /\ pgMax = 0 /\ pg = PgStart
    /\ hvCfg = DefaultConfig /\ hvWorld = NoWorld /\ hv = HvIdle /\ gr = GrIdle /\ pp = PpIdle

\* the record of a query: its arguments and its answer
QueryOp(name, id, type, floor, limit, rows) ==
    [NoOp EXCEPT !.name = name, !.items = rows,
                 !.args = [id |-> id, type |-> type, floor |-> floor, limit |-> limit]]

Query_RelatedTracks ==
    /\ \E id \in {1, 2, 6}, type \in {Null, "related", "co_playlist"}, limit \in QueryLimits :
            op' = QueryOp("get_related_tracks", id, type, Ratio(0, 1), limit,
                          get_related_tracks(db, id, type, limit))
    /\ UNCHANGED <<pp, gr, hvVars, pgVars, db, ncalls, hLast>>

Query_SimilarUsers ==
    /\ \E id \in {20, 21, 22, 9}, type \in {Null, "jaccard_likes", "co_follow"},
          floor \in QueryFloors, limit \in QueryLimits :
            op' = QueryOp("get_similar_users", id, type, floor, limit,
                          get_similar_users(db, id, type, floor, limit))
    /\ UNCHANGED <<pp, gr, hvVars, pgVars, db, ncalls, hLast>>

Query_RelatedArtists ==
    /\ \E id \in {5, 10, 11, 9}, type \in {Null, "co_library", "collaboration"},
          floor \in QueryFloors, limit \in QueryLimits :
            op' = QueryOp("get_related_artists", id, type, floor, limit,
                          get_related_artists(db, id, type, floor, limit))
    /\ UNCHANGED <<pp, gr, hvVars, pgVars, db, ncalls, hLast>>

QueriesNext == Query_RelatedTracks \/ Query_SimilarUsers \/ Query_RelatedArtists

SpecQueries == QueriesInit /\ [][QueriesNext]_vars

\* the answer is in descending order of weight and no longer than the limit
RankedAndCapped ==
    /\ Len(op.items) <= op.args.limit
    /\ \A i, j \in 1..Len(op.items) :
            i < j => AtLeast(op.items[i].weight, op.items[j].weight)

\* the type filter of the query lets the stored type through
TypeAllowed(type) == op.args.type \in {Null, type}

\* C23: every row of an answer of get_related_tracks, get_similar_users or
\* get_related_artists comes from a stored row that involves the queried id
\* (in either position for the two pair tables, the other id being the one
\* returned), has the type asked for when one is given and a score or
\* strength of at least the minimum; the answer is in descending order of
\* weight, score or strength and has at most `limit` rows.  An answer of
\* the two pair queries that is shorter than the limit holds every such
\* row (for users, every one whose other user is cached).
C23_QueriesFiltered ==
    /\ op.name = "get_related_tracks" =>
        /\ RankedAndCapped
        /\ \A i \in 1..Len(op.items) :
            \E r \in db.conn.related_tracks :
                /\ r.src_track_id = op.args.id /\ r.dst_track_id = op.items[i].track_id
                /\ r.relation_type = op.items[i].relation_type
                /\ r.weight = op.items[i].weight
                /\ TypeAllowed(r.relation_type)
    /\ op.name = "get_similar_users" =>
        /\ RankedAndCapped
        /\ \A i \in 1..Len(op.items) :
            \E r \in db.conn.user_similarity :
                /\ {r.user_id_a, r.user_id_b} = {op.args.id, op.items[i].similar_user_id}
                /\ op.items[i].similar_user_id # op.args.id
                /\ r.similarity_type = op.items[i].similarity_type
                /\ r.similarity_score = op.items[i].weight
                /\ TypeAllowed(r.similarity_type)
                /\ AtLeast(r.similarity_score, op.args.floor)
        /\ Len(op.items) < op.args.limit =>
            \A r \in db.conn.user_similarity :
                /\ op.args.id \in {r.user_id_a, r.user_id_b}
                /\ TypeAllowed(r.similarity_type)
                /\ AtLeast(r.similarity_score, op.args.floor)
                /\ \E w \in db.conn.users : w.user_id \in {r.user_id_a, r.user_id_b} \ {op.args.id}
                => \E i \in 1..Len(op.items) :
                        /\ {r.user_id_a, r.user_id_b} = {op.args.id, op.items[i].similar_user_id}
                        /\ r.similarity_type = op.items[i].similarity_type
    /\ op.name = "get_related_artists" =>
        /\ RankedAndCapped
        /\ \A i \in 1..Len(op.items) :
            \E r \in db.conn.artist_relationships :
                /\ {r.artist_id_a, r.artist_id_b} = {op.args.id, op.items[i].related_artist_id}
                /\ op.items[i].related_artist_id # op.args.id
                /\ r.relationship_type = op.items[i].relationship_type
                /\ r.strength = op.items[i].weight
                /\ TypeAllowed(r.relationship_type)
                /\ AtLeast(r.strength, op.args.floor)
        /\ Len(op.items) < op.args.limit =>
            \A r \in db.conn.artist_relationships :
                /\ op.args.id \in {r.artist_id_a, r.artist_id_b}
                /\ TypeAllowed(r.relationship_type)
                /\ AtLeast(r.strength, op.args.floor)
                => \E i \in 1..Len(op.items) :
                        /\ {r.artist_id_a, r.artist_id_b} = {op.args.id, op.items[i].related_artist_id}
                        /\ r.relationship_type = op.items[i].relationship_type

\* user 21 is asked for with a minimum of 0.2 and no type: the answer holds
\* user 22 twice, by score, and user 20, of the pair (20, 21), last; the
\* pair below the minimum is left out
C23_Witness ==
    /\ op.name = "get_similar_users" /\ op.args.id = 21 /\ op.args.type = Null
    /\ op.args.floor = Ratio(1, 5) /\ op.args.limit = 50
    /\ Len(op.items) = 3
    /\ op.items[1].similar_user_id = 22 /\ op.items[1].weight = Ratio(3, 4)
    /\ op.items[3].similar_user_id = 20
    /\ \E r \in db.conn.user_similarity : r.user_id_a = 20 /\ r.user_id_b = 21
    /\ \E r \in db.conn.user_similarity : r.user_id_b = 23 /\ r.user_id_a = 21

(***************************************************************************)
(* Claims about Phase 1 and the request accounting                         *)
(***************************************************************************)

\* Phase 1 of the current run has returned
Phase1Completed ==
    /\ Len(hv.ran) >= 1 /\ hv.ran[1] = 1
    /\ ~(Len(hv.ran) = 1 /\ hv.pc = "raised")

\* the results of the paginated calls Phase 1 made to an endpoint
Phase1Results(ep) ==
    {hv.pages[i] : i \in {j \in 1..Len(hv.pages) :
                            hv.pages[j].phase = 1 /\ hv.pages[j].call.ep = ep}}

\* the ids carried by the records of a list
IdsIn(list) == {list[i].id : i \in 1..Len(list)} \ {0}

\* the ids of the capped likers and reposters of the seed
EngagingUsers ==
    UNION {IdsIn(p.ret) : p \in Phase1Results("track_favoriters")
                                    \cup Phase1Results("track_reposters")}

Liked(u, t) ==
    \E r \in db.conn.user_engagements :
        r.user_id = u /\ r.track_id = t /\ r.engagement_type = "like"

\* C24: once Phase 1 has returned, every user with an id among the capped
\* likers and reposters of the seed is cached and has a 'like' row for the
\* seed, the likes of each of them were fetched in exactly one paginated
\* call, every track with an id in that capped library is cached and has a
\* 'like' row of that user, and, when Phase 1 has just returned,
\* users_collected is the number of those users.
C24_UserDepth ==
    Phase1Completed =>
        /\ \A u \in EngagingUsers :
            /\ \E r \in db.conn.users : r.user_id = u
            /\ Liked(u, SeedId)
            /\ Cardinality({i \in 1..Len(hv.pages) :
                    /\ hv.pages[i].phase = 1 /\ hv.pages[i].call.ep = "user_likes"
                    /\ hv.pages[i].call.arg = u}) = 1
        /\ \A p \in Phase1Results("user_likes") :
            /\ p.call.arg \in EngagingUsers
            /\ \A t \in IdsIn(p.ret) :
                /\ \E r \in db.conn.tracks : r.track_id = t
                /\ Liked(p.call.arg, t)
        /\ hv.pc = "phase2" => hv.stats.users_collected = Cardinality(EngagingUsers)

\* Phase 1 has just returned in the plain world: user 21 is liker and
\* reposter, three users were collected, and the two tracks of user 20's
\* library are cached
C24_Witness ==
    /\ hv.pc = "phase2" /\ hvWorld.name = "plain"
    /\ EngagingUsers = {20, 21, 22}
    /\ \E p \in Phase1Results("track_favoriters") : 21 \in IdsIn(p.ret)
    /\ \E p \in Phase1Results("track_reposters") : 21 \in IdsIn(p.ret)
    /\ hv.stats.users_collected = 3
    /\ Liked(20, 2) /\ Liked(20, SeedId) /\ Liked(22, SeedId)

\* C27: within one call, the delay is performed after a page only when
\* another fetch follows it: at the end of the call every "sleep" of the
\* log is followed by a fetch (one that returned or one that raised), so
\* the log does not end with a delay.
C27_AsStated ==
    pg.pc = "done" =>
        \A i \in 1..Len(pg.log) :
            pg.log[i][1] = "sleep" =>
                /\ i < Len(pg.log)
                /\ pg.log[i + 1][1] \in {"fetch", "raise"}

\* the fetch-function calls of the current run that returned, and those
\* that raised, as <<paginated call, position in its log>>
FetchEvents(kind) ==
    {ev \in UNION {{<<i, j>> : j \in 1..Len(hv.pages[i].log)} : i \in 1..Len(hv.pages)} :
        hv.pages[ev[1]].log[ev[2]][1] = kind}

\* C28: the request counter is 0 when a run starts and, at every point of
\* the run, equals the number of fetch-function calls of that run that
\* returned without raising (an empty page included, a raising call not);
\* the statistics returned at the end carry that number.
C28_RequestsCounted ==
    /\ hv.pc # "idle" => hv.stats.api_requests = Cardinality(FetchEvents("fetch"))
    /\ hv.pc = "phase1" => hv.stats.api_requests = 0
    /\ hv.pc = "returned" => hv.ret.api_requests = hv.stats.api_requests

\* a second run has ended in which a fetch raised, another returned an empty
\* page, and the counter is the number of the fetches that returned
C28_Witness ==
    /\ hv.pc \in {"returned", "raised"} /\ hv.run = 2
    /\ FetchEvents("raise") # {}
    /\ \E i \in 1..Len(hv.pages) :
        hv.pages[i].log = <<(<<"fetch", 0>>)>> /\ hv.pages[i].ret = <<>>
    /\ hv.stats.api_requests = Cardinality(FetchEvents("fetch"))
    /\ hv.stats.api_requests > 1

\* the page the fetch function returned for the last request of a
\* paginated call of the current run
LastPage(p) == RemoteCall(hvWorld, p.call, p.log[Len(p.log)][2]).batch

\* C29: every paginated call passes the page size (50) as the limit of the
\* remote call, and no call ends on a page that is full for the requested
\* limit while its cap is not reached: Phase 7 keeps paging until a short
\* page arrives or 50 results are collected.
C29_AsStated ==
    \A i \in 1..Len(hv.pages) :
        LET p == hv.pages[i]
        IN  /\ p.call.limit = PageSize
            /\ (/\ Len(p.log) > 0
                /\ p.log[Len(p.log)][1] = "fetch"
                /\ Len(LastPage(p)) = p.call.limit)
               => Len(p.ret) >= p.max_results

(***************************************************************************)
(* build_from_seed batch by batch, and the queries on the built graph      *)
(***************************************************************************)

\* the nodes the queries are asked about: tracks and users of the store, and
\* a track that is not cached
AskedNodes == {TrackNode(1), TrackNode(4), UserNode(21), ArtistNode(10), TrackNode(9)}

\* graph.build_from_seed(...) is called: the locals are set up
Build_Call ==
    /\ gr.bpc = "idle"
    /\ \E seed \in GraphSeeds, max_depth \in 0..MaxDepth, layers \in GraphLayers,
          batch_size \in {1, 2, DefaultBatchSize} :
            gr' = [gr EXCEPT !.bs = BuildStart(gr.p, db, seed, max_depth, layers, batch_size),
                             !.bpc = "loop", !.seed = seed, !.max_depth = max_depth,
                             !.layers = layers, !.batch_size = batch_size]
    /\ UNCHANGED <<pgVars, cacheVars, hvVars, pp>>

\* one pass through the outer while loop: the loop test, a batch is
\* collected and processed; the loop ends on an empty queue or batch
Build_Batch ==
    /\ gr.bpc = "loop"
    /\ IF gr.bs.queue = <<>>
       THEN gr' = [gr EXCEPT !.bpc = "layer3"]
       ELSE LET c == CollectBatch(gr.bs, <<>>)
            IN  IF c.batch = <<>>
                THEN gr' = [gr EXCEPT !.bs = c.s, !.bpc = "layer3"]
                ELSE gr' = [gr EXCEPT !.bs = ForEach(TrackItem, c.s, c.batch, 1)]
    /\ UNCHANGED <<pgVars, cacheVars, hvVars, pp>>

\* the code after the loop: the Layer 3 pass when asked for, and the return
Build_Layer3 ==
    /\ gr.bpc = "layer3"
    /\ LET s == AfterLoop(gr.bs)
       IN  gr' = [gr EXCEPT !.bs = s, !.p = s.p, !.built = TRUE, !.bpc = "done"]
    /\ UNCHANGED <<pgVars, cacheVars, hvVars, pp>>

\* graph.get_neighbors(n, limit, layer) on the built graph
Graph_Neighbors ==
    /\ gr.built /\ ~gr.nb_asked /\ ~gr.via_asked
    /\ \E n \in AskedNodes, limit \in {0, 1, 2, 10}, layer \in {<<>>, <<1>>, <<2>>, <<3>>} :
       \E order \in Orders(OutEdges(gr.p.graph, n)) :
            gr' = [gr EXCEPT !.nb_asked = TRUE, !.nb_node = n, !.nb_limit = limit,
                             !.nb_layer = layer,
                             !.neighbors = get_neighbors(gr.p.graph, n, limit, layer, order)]
    /\ UNCHANGED <<pgVars, cacheVars, hvVars, pp>>

\* the orders in which the successors of the user nodes in U can be met
InnerOrders(g, U) ==
    {f \in [U -> UNION {Orders(Neighbors(g, u)) : u \in U}] :
        \A u \in U : f[u] \in Orders(Neighbors(g, u))}

\* graph.get_track_via_user_path(track_id, limit) on the built graph
Graph_ViaUserPath ==
    /\ gr.built /\ ~gr.nb_asked /\ ~gr.via_asked
    /\ \E track_id \in GraphSeeds, limit \in {1, 2, 10} :
       \E outer \in Orders(Neighbors(gr.p.graph, TrackNode(track_id))) :
       \E inner \in InnerOrders(gr.p.graph,
                        {n \in Neighbors(gr.p.graph, TrackNode(track_id)) : n.kind = "user"}) :
            gr' = [gr EXCEPT !.via_asked = TRUE, !.via_track = track_id,
                             !.via_limit = limit,
                             !.via = get_track_via_user_path(gr.p.graph, track_id, limit,
                                                             outer, inner)]
    /\ UNCHANGED <<pgVars, cacheVars, hvVars, pp>>

\* graph.build_from_seed(...) a second time on the same PersonalGraph, with
\* the arguments of the first call
Graph_Rebuild ==
    /\ gr.built /\ ~gr.rebuilt
    /\ gr' = [gr EXCEPT !.rebuilt = TRUE,
                        !.twice = build_from_seed(gr.p, db, gr.seed, gr.max_depth,
                                                  gr.layers, gr.batch_size)]
    /\ UNCHANGED <<pgVars, cacheVars, hvVars, pp>>

BuildNext ==
    \/ Build_Call
    \/ Build_Batch
    \/ Build_Layer3
    \/ Graph_Rebuild
    \/ Graph_Neighbors
    \/ Graph_ViaUserPath

SpecBuild == GraphInit /\ [][BuildNext]_vars

\* the edges of a layer
LayerEdges(g, k) == {e \in g.edges : e.attrs.layer = k}

\* the users the traversal discovered: those with an engagement edge
Discovered(g) == {e.u.id : e \in LayerEdges(g, 2)}

\* the rows get_similar_users finds for a user with the pass's minimum 0.2:
\* the other user of the pair, who must be cached
SimilarTo(d, u) ==
    {IF r.user_id_a = u THEN r.user_id_b ELSE r.user_id_a :
        r \in {x \in d.conn.user_similarity :
                /\ u \in {x.user_id_a, x.user_id_b}
                /\ AtLeast(x.similarity_score, Ratio(2, 10))
                /\ \E w \in d.conn.users :
                    w.user_id = (IF x.user_id_a = u THEN x.user_id_b ELSE x.user_id_a)}}

\* C25: while build_from_seed is in its traversal loop the graph holds no
\* Layer-3 edge; when the call has returned with Layer 3 asked for, every
\* user the traversal discovered, from whichever track, was queried for
\* similar users exactly once and has an edge to each similar user found,
\* and no Layer-3 edge leaves any other user.
C25_Layer3AfterTraversal ==
    /\ gr.bpc \in {"loop", "layer3"} => LayerEdges(gr.bs.p.graph, 3) = {}
    /\ (gr.bpc = "done" /\ 3 \in gr.layers /\ gr.p.enable_multi_layer) =>
        /\ \A u \in Discovered(gr.p.graph) :
            /\ Cardinality({i \in 1..Len(gr.bs.asked) : gr.bs.asked[i] = u}) = 1
            /\ \A v \in SimilarTo(db, u) :
                \E e \in LayerEdges(gr.p.graph, 3) : e.u = UserNode(u) /\ e.v = UserNode(v)
        /\ \A e \in LayerEdges(gr.p.graph, 3) : e.u.id \in Discovered(gr.p.graph)
    /\ (gr.bpc = "done" /\ ~(3 \in gr.layers /\ gr.p.enable_multi_layer)) =>
        LayerEdges(gr.p.graph, 3) = {}

\* a build with layers 1..4 and depth 2 has returned: user 21 was discovered
\* from tracks 1 and 4, user 22 from track 2, both were queried and the
\* edges user_21 -> user_22 and user_22 -> user_21 exist
C25_Witness ==
    /\ gr.bpc = "done" /\ gr.seed = 1 /\ gr.max_depth = 2 /\ 3 \in gr.layers
    /\ Discovered(gr.p.graph) = {21, 22}
    /\ gr.bs.asked = <<21, 22>>
    /\ \E e \in LayerEdges(gr.p.graph, 2) : e.u = UserNode(21) /\ e.v = TrackNode(4)
    /\ \E e \in LayerEdges(gr.p.graph, 2) : e.u = UserNode(22) /\ e.v = TrackNode(2)
    /\ \E e \in LayerEdges(gr.p.graph, 3) : e.u = UserNode(21) /\ e.v = UserNode(22)
    /\ \E e \in LayerEdges(gr.p.graph, 3) : e.u = UserNode(22) /\ e.v = UserNode(21)

\* what identifies an entry of get_neighbors' answer, and the same for the
\* edge it was made from
InfoKey(x) == <<x.node_id, x.relation, x.layer, x.weight>>
EdgeInfoKey(e) == <<e.v, e.attrs.relation, e.attrs.layer, e.attrs.weight>>

\* the edges get_neighbors was asked for
AskedEdges ==
    {e \in OutEdges(gr.p.graph, gr.nb_node) :
        gr.nb_layer = <<>> \/ e.attrs.layer = gr.nb_layer[1]}

\* how many entries of the answer, and how many of the asked edges, carry a key
Listed(key) ==
    Cardinality({i \in 1..Len(gr.neighbors) : InfoKey(gr.neighbors[i]) = key})
Present(key) == Cardinality({e \in AskedEdges : EdgeInfoKey(e) = key})

\* C26: get_neighbors(n, limit, layer) returns [] for a node that is not in
\* the graph; otherwise min(limit, number of edges leaving n with the asked
\* layer) entries, each made from such an edge and no edge used twice, in
\* descending order of weight, the edges left out weighing no more than the
\* last entry, and each entry typed as the node its edge leads to.
C26_NeighborsListed ==
    gr.nb_asked =>
        IF gr.nb_node \notin DOMAIN gr.p.graph.nodes THEN gr.neighbors = <<>>
        ELSE /\ Len(gr.neighbors) = Min(gr.nb_limit, Cardinality(AskedEdges))
             /\ \A i \in 1..Len(gr.neighbors) :
                    /\ Listed(InfoKey(gr.neighbors[i])) <= Present(InfoKey(gr.neighbors[i]))
                    /\ gr.neighbors[i].node_type = gr.neighbors[i].node_id.kind
                    /\ \A j \in (i + 1)..Len(gr.neighbors) :
                            AtLeast(gr.neighbors[i].weight, gr.neighbors[j].weight)
             /\ \A e \in AskedEdges :
                    Listed(EdgeInfoKey(e)) < Present(EdgeInfoKey(e)) =>
                        /\ Len(gr.neighbors) = gr.nb_limit
                        /\ gr.nb_limit > 0 =>
                            AtLeast(gr.neighbors[Len(gr.neighbors)].weight, e.attrs.weight)

\* user_21 was asked for its Layer-2 neighbours with limit 2 on a graph
\* where it has three engagement edges and a similarity edge: two of the
\* engagement edges are returned
C26_Witness ==
    /\ gr.nb_asked /\ gr.nb_node = UserNode(21) /\ gr.nb_layer = <<2>> /\ gr.nb_limit = 2
    /\ Cardinality(AskedEdges) = 3
    /\ Cardinality(OutEdges(gr.p.graph, UserNode(21))) = 4
    /\ Len(gr.neighbors) = 2
    /\ \A i \in 1..2 : gr.neighbors[i].layer = 2 /\ gr.neighbors[i].node_type = "track"

\* some user node has edges to both t and another track node
SharedEngager(g, t) ==
    \E u \in DOMAIN g.nodes :
        /\ u.kind = "user"
        /\ TrackNode(t) \in Neighbors(g, u)
        /\ \E o \in Neighbors(g, u) : o.kind = "track" /\ o # TrackNode(t)

\* C30: after a build that includes Layer 2, get_track_via_user_path(t)
\* returns, each at most once and at most limit of them, other track nodes
\* that share an engaging user with t, and the answer is not empty when some
\* user node has edges to both t and another track node.
C30_AsStated ==
    (gr.via_asked /\ 2 \in gr.layers /\ gr.p.enable_multi_layer) =>
        /\ Len(gr.via) <= gr.via_limit
        /\ \A i \in 1..Len(gr.via) :
            /\ gr.via[i].track_id # TrackNode(gr.via_track)
            /\ \A j \in 1..Len(gr.via) : gr.via[j].track_id = gr.via[i].track_id => i = j
            /\ \E u \in DOMAIN gr.p.graph.nodes :
                /\ u.kind = "user"
                /\ {TrackNode(gr.via_track), gr.via[i].track_id} \subseteq Neighbors(gr.p.graph, u)
        /\ SharedEngager(gr.p.graph, gr.via_track) => gr.via # <<>>

(***************************************************************************)
(* Claims about the built graph as a whole                                 *)
(***************************************************************************)

\* C31: in the graph build_from_seed has built, every Layer-3 edge from a
\* user u to a user v comes with a Layer-3 edge from v to u of the same
\* weight.
C31_AsStated ==
    gr.built =>
        \A e \in LayerEdges(gr.p.graph, 3) :
            \E back \in LayerEdges(gr.p.graph, 3) :
                /\ back.u = e.v /\ back.v = e.u
                /\ back.attrs.weight = e.attrs.weight

\* C32: a second build_from_seed on the same PersonalGraph with the same
\* arguments and the same cache leaves the nodes, the edges (parallel edges
\* counted) and the returned statistics as the first call left them.
C32_AsStated ==
    gr.rebuilt =>
        /\ gr.twice.graph.nodes = gr.p.graph.nodes
        /\ gr.twice.graph.edges = gr.p.graph.edges
        /\ BuildStats(gr.twice, gr.seed, gr.max_depth, gr.layers)
                = BuildStats(gr.p, gr.seed, gr.max_depth, gr.layers)

\* C33: after load_from_json into a fresh PersonalGraph that is not empty,
\* get_graph_stats reports as track_nodes, user_nodes and artist_nodes the
\* number of nodes of each node_type, the values the exporting graph
\* reported.
C33_AsStated ==
    (gr.loaded /\ DOMAIN gr.fresh.graph.nodes # {}) =>
        LET stats == get_graph_stats(gr.fresh)
        IN  /\ stats.track_nodes = Cardinality(NodesOfType(gr.fresh.graph, "track"))
            /\ stats.user_nodes = Cardinality(NodesOfType(gr.fresh.graph, "user"))
            /\ stats.artist_nodes = Cardinality(NodesOfType(gr.fresh.graph, "artist"))
            /\ stats.track_nodes = get_graph_stats(gr.p).track_nodes
            /\ stats.user_nodes = get_graph_stats(gr.p).user_nodes
            /\ stats.artist_nodes = get_graph_stats(gr.p).artist_nodes

(***************************************************************************)
(* Claims about the derived rows as a whole                                *)
(***************************************************************************)

\* C34: right after a pass, every stored row of its relation type belongs
\* to a pair that meets the pass's thresholds on the current cache and
\* carries the freshly computed value.
C34_AsStated ==
    /\ pp.last = "track_cooccurrence" =>
        \A r \in db.conn.related_tracks :
            r.relation_type = "co_playlist" =>
                /\ CoPlaylists(db.conn, r.src_track_id, r.dst_track_id)
                        >= pp.cfg.min_co_occurrence
                /\ r.weight = MinOne(Ratio(CoPlaylists(db.conn, r.src_track_id,
                                                       r.dst_track_id), 10))
    /\ pp.last = "user_similarities" =>
        \A r \in db.conn.user_similarity :
            r.similarity_type = "jaccard_likes" =>
                /\ SimilarPair(db.conn, pp.cfg, r.user_id_a, r.user_id_b)
                /\ r.similarity_score
                        = JaccardRow(db.conn, r.user_id_a, r.user_id_b).similarity_score
    /\ pp.last = "artist_relationships" =>
        \A r \in db.conn.artist_relationships :
            r.relationship_type = "co_library" =>
                /\ StrongPair(db.conn, pp.cfg, r.artist_id_a, r.artist_id_b)
                /\ r.strength = ArtistStrength(CoLibraries(db.conn, r.artist_id_a,
                                                           r.artist_id_b))

\* the pairs each pass writes a row for
RowsOfSimilarities ==
    {k \in PostUsers(db.conn) \X PostUsers(db.conn) :
        k[1] < k[2] /\ SimilarPair(db.conn, pp.cfg, k[1], k[2])}
RowsOfCooccurrence ==
    {k \in PostTrackIds(db.conn) \X PostTrackIds(db.conn) :
        k[1] # k[2] /\ CoPlaylists(db.conn, k[1], k[2]) >= pp.cfg.min_co_occurrence}
RowsOfArtists ==
    {k \in PostArtists(db.conn) \X PostArtists(db.conn) :
        k[1] < k[2] /\ StrongPair(db.conn, pp.cfg, k[1], k[2])}

\* C35: the count a pass returns is the number of distinct rows it wrote.
C35_AsStated ==
    /\ pp.last = "user_similarities" => pp.written = Cardinality(RowsOfSimilarities)
    /\ pp.last = "track_cooccurrence" => pp.written = Cardinality(RowsOfCooccurrence)
    /\ pp.last = "artist_relationships" => pp.written = Cardinality(RowsOfArtists)

\* C36: when a deep_harvest run has returned, every engagement row in the
\* cache (all of them written by the engine) names a cached user and a
\* cached track, and every playlist_tracks row names a cached playlist and
\* a cached track.
C36_EntitiesBeforeRelations ==
    hv.pc = "returned" =>
        /\ \A r \in db.conn.user_engagements :
            /\ \E u \in db.conn.users : u.user_id = r.user_id
            /\ \E t \in db.conn.tracks : t.track_id = r.track_id
        /\ \A r \in db.conn.playlist_tracks :
            /\ \E p \in db.conn.playlists : p.playlist_id = r.playlist_id
            /\ \E t \in db.conn.tracks : t.track_id = r.track_id

\* a run has returned that met a liked track without id and wrote likes of
\* tracks other than the seed and the links of a playlist
C36_Witness ==
    /\ hv.pc = "returned" /\ hvWorld.name = "track without id"
    /\ \E r \in db.conn.user_engagements : r.track_id # SeedId
    /\ \E r \in db.conn.user_engagements : r.track_id = SeedId
    /\ db.conn.playlist_tracks # {}
    /\ \E i \in 1..Len(hv.wlog) : hv.wlog[i].op = "cache_playlist_tracks"

(***************************************************************************)
(* SmartExpander: the expansion through an artist's playlists              *)
(***************************************************************************)

\* the defaults of SmartExpander.__init__
MaxPlaylistsPerArtist == 20
MaxTracksPerPlaylist == 100
MinPlaybackCount == 1000

\* a pair written in one direction only
ExpandPairItem_OneWay(s, pair) ==
    IF pair[2].id = 0 \/ pair[2].id = pair[1].id THEN s
    ELSE LET r == add_related_track(s.db, pair[1].id, pair[2].id, "co_playlist", s.weight)
         IN  [s EXCEPT !.db = r.db, !.err = r.err, !.relationships_created = @ + 1]

\* the body of the inner loop: the pair (track_a, track_b) of one playlist
\* is written in both directions with the weight 1 / len(valid_tracks)
ExpandPairItem(s, pair) ==
    IF pair[2].id = 0 \/ pair[2].id = pair[1].id THEN s
    ELSE LET r1 == add_related_track(s.db, pair[1].id, pair[2].id, "co_playlist", s.weight)
             r2 == add_related_track(r1.db, pair[2].id, pair[1].id, "co_playlist", s.weight)
         IN  IF r1.err # "ok" THEN [s EXCEPT !.db = r1.db, !.err = r1.err]
             ELSE [s EXCEPT !.db = r2.db, !.err = r2.err,
                            !.relationships_created = @ + 2]

\* the body of the loop over enumerate(valid_tracks)
ExpandTrackItem(s, i) ==
    LET track_a == s.valid[i]
    IN  IF track_a.id = 0 THEN s
        ELSE IF MinPlaybackCount > 0 /\ track_a.playback_count < MinPlaybackCount THEN s
        ELSE ForEach(ExpandPairItem, [s EXCEPT !.new_tracks = @ + 1],
                     [k \in 1..(Len(s.valid) - i) |-> <<track_a, s.valid[i + k]>>], 1)

\* the body of the loop over the playlists
ExpandPlaylistItem(s, playlist) ==
    IF playlist.id = 0 THEN s
    ELSE LET c == cache_playlist(s.db, playlist)
         IN  IF c.err # "ok" THEN [s EXCEPT !.db = c.db, !.err = c.err]
             ELSE LET valid_tracks == Take(SelectSeq(playlist.tracks, LAMBDA t : t.id # 0),
                                           MaxTracksPerPlaylist)
                      l == cache_playlist_tracks(c.db, playlist.id, valid_tracks)
                      s1 == [s EXCEPT !.db = c.db, !.playlists_processed = @ + 1]
                  IN  IF Len(playlist.tracks) = 0 THEN s1
                      ELSE IF l.err # "ok" THEN [s1 EXCEPT !.db = l.db, !.err = l.err]
                      ELSE ForEach(ExpandTrackItem,
                                   [s1 EXCEPT !.db = l.db, !.valid = valid_tracks,
                                              !.weight = Ratio(1, IF Len(valid_tracks) > 1
                                                                  THEN Len(valid_tracks) ELSE 1)],
                                   [i \in 1..Len(valid_tracks) |-> i], 1)

\* _expand_artist_playlists over the playlists _fetch_user_playlists returned
expand_artist_playlists(d, playlists) ==
    ForEach(ExpandPlaylistItem,
            [db |-> d, err |-> "ok", playlists_processed |-> 0, new_tracks |-> 0,
             relationships_created |-> 0, valid |-> <<>>, weight |-> Ratio(1, 1)],
            Take(playlists, MaxPlaylistsPerArtist), 1)

\* number of expansions in a run
MaxExpansions == 2

Played(id, plays) == TrackPayload(id, "t", NoUser, plays, 0)

\* playlists an artist may have: one with a track below the playback
\* minimum, one that shares two tracks with it, one with an id-less entry
\* and a track listed twice, one without id and one whose title is null
ArtistPlaylists ==
    {PlaylistPayload(7, "p", NoUser, <<Played(1, 5000), Played(2, 10), Played(3, 2000)>>),
     PlaylistPayload(8, "p", NoUser, <<Played(2, 2000), Played(1, 5000)>>),
     PlaylistPayload(9, "p", NoUser,
                     <<Played(1, 5000), TrackNoId, Played(1, 5000), Played(4, 1000)>>),
     PlaylistPayload(0, "p", NoUser, <<Played(5, 5000), Played(6, 5000)>>),
     PlaylistPayload(6, Null, NoUser, <<Played(5, 5000), Played(6, 5000)>>)}

ExpandInit ==
    /\ db \in {EmptyDb, ExampleStore}
    /\ \E config \in PostConfigs :
            pp = [PpIdle EXCEPT !.cfg = config, !.base = db.conn, !.before = db.conn]
    /\ ncalls = 0 /\ hLast = NoHistory /\ op = NoOp
    /\ pgSrc = NoSource /\ pgMax = 0 /\ pg = PgStart
    /\ hvCfg = DefaultConfig /\ hvWorld = NoWorld /\ hv = HvIdle /\ gr = GrIdle

\* _expand_artist_playlists for an artist with one or two playlists
Post_Expand ==
    /\ pp.expanded < MaxExpansions
    /\ \E playlists \in {<<x>> : x \in ArtistPlaylists}
                            \cup {<<x, y>> : x \in ArtistPlaylists, y \in ArtistPlaylists} :
        LET r == expand_artist_playlists(db, playlists)
        IN  /\ db' = r.db
            /\ pp' = [pp EXCEPT !.last = "expand", !.expanded = @ + 1,
                                !.done = {}, !.again = FALSE,
                                !.base = r.db.conn, !.before = db.conn,
                                !.written = r.relationships_created, !.err = r.err]
    /\ UNCHANGED <<pgVars, ncalls, hLast, op, hvVars, gr>>

ExpandNext ==
    \/ Post_Expand
    \/ Post_TrackCooccurrence

SpecExpand == ExpandInit /\ [][ExpandNext]_vars

\* C37: after any sequence of playlist expansions and co-occurrence passes,
\* a stored row (a, b, 'co_playlist') with weight w comes with the row
\* (b, a, 'co_playlist') with the same weight.
C37_CoPlaylistSymmetric ==
    \A r \in db.conn.related_tracks :
        r.relation_type = "co_playlist" =>
            \E back \in db.conn.related_tracks :
                /\ back.src_track_id = r.dst_track_id
                /\ back.dst_track_id = r.src_track_id
                /\ back.relation_type = "co_playlist"
                /\ back.weight = r.weight

\* two expansions and then a pass: the pair (1, 2) carries the weight the
\* pass computed, the pair (1, 3) the weight the expansion gave it
C37_Witness ==
    /\ pp.expanded = 2 /\ pp.last = "track_cooccurrence" /\ pp.written > 0
    /\ \E r \in db.conn.related_tracks :
            /\ r.src_track_id = 1 /\ r.dst_track_id = 2 /\ r.relation_type = "co_playlist"
            /\ r.weight = MinOne(Ratio(CoPlaylists(db.conn, 1, 2), 10))
    /\ \E r \in db.conn.related_tracks :
            /\ r.src_track_id = 3 /\ r.dst_track_id = 1 /\ r.relation_type = "co_playlist"
            /\ r.weight = Ratio(1, 3)
    /\ CoPlaylists(db.conn, 1, 3) < pp.cfg.min_co_occurrence

\* the graph an unbatched traversal (batch_size = 1) builds from the same
\* cache with the arguments of the build
Unbatched ==
    build_from_seed(NewGraph(gr.p.enable_multi_layer), db, gr.seed, gr.max_depth,
                    gr.layers, 1)

\* C38: whatever the batch size, the built graph has the nodes, with their
\* attributes, and the edges, with their attributes and parallel edges, of
\* the graph an unbatched traversal builds, and the node sets kept beside
\* the graph are the same.
C38_BatchingEquivalent ==
    gr.bpc = "done" =>
        /\ gr.p.graph.nodes = Unbatched.graph.nodes
        /\ gr.p.graph.edges = Unbatched.graph.edges
        /\ gr.p.track_nodes = Unbatched.track_nodes
        /\ gr.p.user_nodes = Unbatched.user_nodes
        /\ gr.p.artist_nodes = Unbatched.artist_nodes

\* a build with batches of two has returned: the second level (2, 3) filled
\* one batch, the third level (4, 7, 8) was split over two
C38_Witness ==
    /\ gr.bpc = "done" /\ gr.batch_size = 2 /\ gr.seed = 1 /\ gr.max_depth = 2
    /\ gr.layers = {1, 2, 3, 4} /\ gr.p.enable_multi_layer
    /\ gr.p.track_nodes = {1, 2, 3, 4, 7, 8}
    /\ Cardinality(gr.p.graph.edges) > 10

(***************************************************************************)
(* build_from_seed over a cache whose relations loop                       *)
(***************************************************************************)

\* GraphStore with loops added: tracks 1, 5 and 8 are related to
\* themselves, 2 leads back to 1, and 7 and 8 lead to each other; with
\* 4 -> 5 -> 1 every cached track but 3 and 4 lies on a cycle of length
\* one, two or more
LoopStore ==
    ForEach(RelItem, [db |-> GraphStore, err |-> "ok"],
            <<RelCall(1, 1, "related", 1, 1), RelCall(5, 5, "co_playlist", 1, 2),
              RelCall(8, 8, "related", 1, 4), RelCall(2, 1, "related", 9, 10),
              RelCall(7, 8, "related", 1, 2), RelCall(8, 7, "related", 1, 2)>>, 1).db

\* a new PersonalGraph over the cache with or without the loops
CyclesInit ==
    /\ db \in {GraphStore, LoopStore}
    /\ \E multi \in BOOLEAN :
            gr = [GrIdle EXCEPT !.p = NewGraph(multi), !.fresh = NewGraph(multi)]
    /\ ncalls = 0 /\ hLast = NoHistory /\ op = NoOp
    /\ pgSrc = NoSource /\ pgMax = 0 /\ pg = PgStart
    /\ hvCfg = DefaultConfig /\ hvWorld = NoWorld /\ hv = HvIdle /\ pp = PpIdle

CyclesNext == Build_Call \/ Build_Batch \/ Build_Layer3

SpecCycles == CyclesInit /\ [][CyclesNext]_vars

\* the track ids a build started from gr.seed can meet: the cached tracks
\* (get_related_tracks joins the tracks table) and the seed
Reachable == {t.track_id : t \in db.conn.tracks} \cup {gr.seed}

\* how far the call is from its return, in steps: the return itself, the
\* Layer 3 step, and at most one pass through the loop for each track id
\* not yet visited, plus the pass that finds the queue empty
StepsLeft ==
    CASE gr.bpc = "idle" -> Cardinality(Reachable) + 4
      [] gr.bpc = "loop" -> Cardinality(Reachable \ gr.bs.visited) + 2
      [] gr.bpc = "layer3" -> 1
      [] OTHER -> 0

\* no value occurs twice in the sequence
NoRepeat(seq) == \A i, j \in 1..Len(seq) : seq[i] = seq[j] => i = j

\* get_track and get_related_tracks are called at most once per track id,
\* and only with ids that were marked visited
C39_Safe ==
    /\ StepsLeft >= 0
    /\ NoRepeat(gr.bs.fetched)
    /\ NoRepeat(gr.bs.expanded)
    /\ \A i \in 1..Len(gr.bs.fetched) : gr.bs.fetched[i] \in gr.bs.visited
    /\ \A i \in 1..Len(gr.bs.expanded) :
            \E j \in 1..Len(gr.bs.fetched) : gr.bs.fetched[j] = gr.bs.expanded[i]

\* C39: on every cache, with or without cycles and self-loops in the track
\* relations, every step of the build brings it closer to its return (a
\* pass through the loop marks a new track id visited or leaves the loop),
\* so the call returns after a bounded number of steps, and during the call
\* each track id is fetched at most once and expanded at most once.
C39_TerminatesOncePerTrack == []C39_Safe /\ [][StepsLeft' < StepsLeft]_vars

\* a build over the looping cache has returned: from seed 1 it went through
\* the self-loop of 1, the way back 2 -> 1 and the cycle 7 <-> 8, and each
\* of the six tracks reached was fetched once
C39_Witness ==
    /\ gr.bpc = "done" /\ db = LoopStore /\ gr.seed = 1 /\ gr.max_depth = 2
    /\ 1 \in gr.layers /\ gr.batch_size = 1
    /\ {gr.bs.fetched[i] : i \in 1..Len(gr.bs.fetched)} = {1, 2, 3, 4, 7, 8}
    /\ Len(gr.bs.fetched) = 6
    /\ gr.bs.expanded = <<1, 2, 3>>
    /\ \E e \in gr.p.graph.edges : e.u = TrackNode(1) /\ e.v = TrackNode(1)
    /\ \E e \in gr.p.graph.edges : e.u = TrackNode(2) /\ e.v = TrackNode(1)

====
